---- MODULE Spec2Model ----
(***************************************************************************)
(* Model of the mini-compiler back end: the driver pipeline of             *)
(* mini_compiler.py, the SemanticAnalyzer of static_semantic_ast_visitor   *)
(* and the CodeGenVisitor of code_gen_ast_visitor.                         *)
(*                                                                         *)
(* AST nodes are records tagged by k, the class name of the node; their    *)
(* attributes carry the names the visitors read (left, id, operator, ...). *)
(* An identifier is its string: Name(...) of a name attribute is that      *)
(* string.                                                                 *)
(***************************************************************************)
EXTENDS Integers, Sequences, FiniteSets, TLC

VARIABLES pc, phase, idx, syntaxErrors, ioOk, program,
          errors, diags, structs, globals, functions, function_scopes,
          returned,
          output, label_counter, cg_structs, cg_globals, locals,
          type_environment, current_locals_size, read, written

vars == <<pc, phase, idx, syntaxErrors, ioOk, program,
          errors, diags, structs, globals, functions, function_scopes,
          returned,
          output, label_counter, cg_structs, cg_globals, locals,
          type_environment, current_locals_size, read, written>>

-----------------------------------------------------------------------------
(* Generic helpers: Python dicts are functions with a finite domain.       *)

EmptyMap == [x \in {} |-> x]

Put(m, key, v) == [x \in DOMAIN m \cup {key} |-> IF x = key THEN v ELSE m[x]]

Del(m, keys) == [x \in DOMAIN m \ keys |-> m[x]]

Update(m, n) == [x \in DOMAIN m \cup DOMAIN n |-> IF x \in DOMAIN n THEN n[x] ELSE m[x]]

Range(s) == {s[i] : i \in DOMAIN s}

Count(s, S) == Cardinality({i \in DOMAIN s : s[i] \in S})

RECURSIVE Concat(_)
Concat(ss) == IF ss = <<>> THEN <<>> ELSE Head(ss) \o Concat(Tail(ss))

-----------------------------------------------------------------------------
(* AST nodes (miniast): the attributes are those the three visitors read.  *)

NoNode == [k |-> "None"]

IdentifierExpression(s) == [k |-> "IdentifierExpression", id |-> s]

IntType == [k |-> "IntType"]
BoolType == [k |-> "BoolType"]
StructType(s) == [k |-> "StructType", name |-> s]
ReturnTypeVoid == [k |-> "ReturnTypeVoid"]
ReturnTypeReal(t) == [k |-> "ReturnTypeReal", type_ |-> t]

Declaration(t, n) == [k |-> "Declaration", type |-> t, name |-> n]
TypeDeclaration(n, fs) == [k |-> "TypeDeclaration", name |-> n, fields |-> fs]
Function(n, ps, ls, rt, b) ==
  [k |-> "Function", name |-> n, params |-> ps, locals |-> ls,
   ret_type |-> rt, body |-> b]
Program(ts, ds, fs) == [k |-> "Program", types |-> ts, declarations |-> ds, functions |-> fs]

IntegerExpression(v) == [k |-> "IntegerExpression", value |-> v]
TrueExpression == [k |-> "TrueExpression"]
FalseExpression == [k |-> "FalseExpression"]
NullExpression == [k |-> "NullExpression"]
ReadExpression == [k |-> "ReadExpression"]
DotExpression(l, f) == [k |-> "DotExpression", left |-> l, id |-> f]
UnaryExpression(op, e) == [k |-> "UnaryExpression", operator |-> op, operand |-> e]
BinaryExpression(op, l, r) ==
  [k |-> "BinaryExpression", operator |-> op, left |-> l, right |-> r]
InvocationExpression(f, as) ==
  [k |-> "InvocationExpression", name |-> f, arguments |-> as]
NewExpression(s) == [k |-> "NewExpression", id |-> s]

LValueID(n) == [k |-> "LValueID", id |-> n]
LValueDot(l, f) == [k |-> "LValueDot", left |-> l, id |-> f]

BlockStatement(ss) == [k |-> "BlockStatement", statements |-> ss]
AssignmentStatement(t, s) == [k |-> "AssignmentStatement", target |-> t, source |-> s]
ConditionalStatement(g, t, e) ==
  [k |-> "ConditionalStatement", guard |-> g, then_block |-> t, else_block |-> e]
WhileStatement(g, b) == [k |-> "WhileStatement", guard |-> g, body |-> b]
DeleteStatement(e) == [k |-> "DeleteStatement", expression |-> e]
InvocationStatement(e) == [k |-> "InvocationStatement", expression |-> e]
PrintStatement(e) == [k |-> "PrintStatement", expression |-> e]
PrintLnStatement(e) == [k |-> "PrintLnStatement", expression |-> e]
ReturnStatement(e) == [k |-> "ReturnStatement", expression |-> e]
ReturnEmptyStatement == [k |-> "ReturnEmptyStatement"]

-----------------------------------------------------------------------------
(* static_semantic_ast_visitor.py: the type constants.  None is the empty  *)
(* tuple, the one type value that is false in a Python condition.          *)

INT == <<"int">>
BOOL == <<"bool">>
VOID == <<"void">>
NULL == <<"null">>
None == <<>>

Truthy(t) == t # None

(* Name: the identifier's string *)
Name(ident) == ident

(* getattr(node, attr, None) *)
GetAttr(node, attr) == IF attr \in DOMAIN node THEN node[attr] ELSE NoNode

(* SemanticAnalyzer.Type: a struct type resolves only when registered. *)
RECURSIVE Type(_, _)
Type(node, ss) ==
  IF node = NoNode THEN None
  ELSE IF node.k = "IntType" THEN INT
  ELSE IF node.k = "BoolType" THEN BOOL
  ELSE IF node.k = "ReturnTypeVoid" THEN VOID
  ELSE IF node.k = "ReturnTypeReal" THEN Type(node.type_, ss)
  ELSE IF node.k = "StructType"
       THEN IF Name(node.name) \notin DOMAIN ss THEN None
            ELSE <<"struct", Name(node.name)>>
  ELSE None

is_struct(t) == Len(t) = 2 /\ t[1] = "struct"

types_match(a, b) ==
  IF a = None \/ b = None THEN FALSE
  ELSE IF b = NULL /\ is_struct(a) THEN TRUE
  ELSE a = b

(* SymbolTable: a scope is the chain of symbol maps from itself to the     *)
(* global table.                                                           *)
lookup_local(symbols, name) == IF name \in DOMAIN symbols THEN symbols[name] ELSE NoNode

(* A lookup that asks the outermost table first. *)
lookupTable_outermost_first(scope, name) ==
  IF scope = <<>> THEN NoNode
  ELSE IF name \in DOMAIN scope[Len(scope)] THEN scope[Len(scope)][name]
  ELSE IF name \in DOMAIN Head(scope) THEN Head(scope)[name]
  ELSE NoNode

RECURSIVE lookupTable(_, _)
lookupTable(scope, name) ==
  IF scope = <<>> THEN NoNode
  ELSE IF name \in DOMAIN Head(scope) THEN Head(scope)[name]
  ELSE lookupTable(Tail(scope), name)

-----------------------------------------------------------------------------
(* SemanticAnalyzer, expressions.  A is the analyzer's context: the struct *)
(* and function registries and the current scope.  A visitor returns the   *)
(* type it computed and the diagnostics it reported, in the order of the   *)
(* Error calls.  The result of visiting a sub-expression is handed to the  *)
(* operator that finishes the visitor (..._result).                        *)

R(t, es) == [t |-> t, errs |-> es]

RECURSIVE expr_type(_, _)
RECURSIVE check_args(_, _, _)

visit_identifier_expression(expr, A) ==
  LET decl == lookupTable(A.scope, expr.id)
  IN IF decl # NoNode THEN R(Type(decl.type, A.structs), <<>>)
     ELSE R(None, <<"Undefined variable">>)

RECURSIVE field_type(_, _, _)
field_type(fields, field_name, ss) ==
  IF fields = <<>> THEN None
  ELSE IF Name(Head(fields).name) = field_name THEN Type(Head(fields).type, ss)
  ELSE field_type(Tail(fields), field_name, ss)

has_field(fields, field_name) == \E i \in DOMAIN fields : Name(fields[i].name) = field_name

(* visit_dot_expression after the base l has been visited. *)
dot_result(l, field_name, ss) ==
  IF ~Truthy(l.t) \/ ~is_struct(l.t)
  THEN R(None, l.errs \o (IF Truthy(l.t) THEN <<"Dot operator requires struct">> ELSE <<>>))
  ELSE IF l.t[2] \notin DOMAIN ss THEN R(None, l.errs)
  ELSE IF has_field(ss[l.t[2]].fields, field_name)
  THEN R(field_type(ss[l.t[2]].fields, field_name, ss), l.errs)
  ELSE R(None, l.errs \o <<"Struct has no field">>)

visit_dot_expression(expr, A) ==
  dot_result(expr_type(expr.left, A), Name(expr.id), A.structs)

visit_new_expression(expr, A) ==
  IF Name(expr.id) \notin DOMAIN A.structs THEN R(None, <<"Undefined struct">>)
  ELSE R(<<"struct", Name(expr.id)>>, <<>>)

(* The check of one argument a against the parameter type pt. *)
arg_result(a, pt) ==
  a.errs \o
  (IF Truthy(a.t) /\ Truthy(pt)
   THEN IF a.t = NULL /\ ~is_struct(pt) THEN <<"Cannot pass null to non-struct">>
        ELSE IF a.t # pt /\ a.t # NULL THEN <<"Argument type mismatch">>
        ELSE <<>>
   ELSE <<>>)

(* for arg_expr, param_decl in zip(arguments, params) *)
check_args(args, params, A) ==
  IF args = <<>> \/ params = <<>> THEN <<>>
  ELSE arg_result(expr_type(Head(args), A), Type(Head(params).type, A.structs))
       \o check_args(Tail(args), Tail(params), A)

visit_invocation_expression(expr, A) ==
  IF Name(expr.name) \notin DOMAIN A.functions THEN R(None, <<"Undefined function">>)
  ELSE R(Type(A.functions[Name(expr.name)].ret_type, A.structs),
         (IF Len(A.functions[Name(expr.name)].params) # Len(expr.arguments)
          THEN <<"Wrong number of arguments">> ELSE <<>>)
         \o check_args(expr.arguments, A.functions[Name(expr.name)].params, A))

(* visit_unary_expression after the operand o has been visited. *)
unary_result(op_val, o) ==
  IF ~Truthy(o.t) THEN R(None, o.errs)
  ELSE IF op_val = "!"
       THEN R(BOOL, o.errs \o (IF o.t # BOOL THEN <<"requires boolean">> ELSE <<>>))
  ELSE IF op_val = "-"
       THEN R(INT, o.errs \o (IF o.t # INT THEN <<"requires int">> ELSE <<>>))
  ELSE R(None, o.errs)

visit_unary_expression(expr, A) == unary_result(expr.operator, expr_type(expr.operand, A))

(* An operator check whose equality knows null on the left only. *)
binary_check_null_on_left_only(op_val, left_t, right_t) ==
  IF op_val \in {"*", "/", "+", "-"}
  THEN R(INT, IF left_t # INT \/ right_t # INT
              THEN <<"Arithmetic requires int operands">> ELSE <<>>)
  ELSE IF op_val \in {"<", ">", "<=", ">="}
  THEN R(BOOL, IF left_t # INT \/ right_t # INT
               THEN <<"Comparison requires int operands">> ELSE <<>>)
  ELSE IF op_val \in {"==", "!="}
  THEN R(BOOL, IF left_t = NULL
               THEN (IF ~is_struct(right_t)
                     THEN <<"Cannot compare null with non-struct">> ELSE <<>>)
               ELSE IF left_t # right_t
               THEN <<"Equality requires matching types">>
               ELSE <<>>)
  ELSE IF op_val \in {"&&", "||"}
  THEN R(BOOL, IF left_t # BOOL \/ right_t # BOOL
               THEN <<"Boolean operators require boolean operands">> ELSE <<>>)
  ELSE R(None, <<>>)

(* The check of the operator on the operand types. *)
binary_check(op_val, left_t, right_t) ==
  IF op_val \in {"*", "/", "+", "-"}
  THEN R(INT, IF left_t # INT \/ right_t # INT
              THEN <<"Arithmetic requires int operands">> ELSE <<>>)
  ELSE IF op_val \in {"<", ">", "<=", ">="}
  THEN R(BOOL, IF left_t # INT \/ right_t # INT
               THEN <<"Comparison requires int operands">> ELSE <<>>)
  ELSE IF op_val \in {"==", "!="}
  THEN R(BOOL, IF left_t = NULL
               THEN (IF ~is_struct(right_t)
                     THEN <<"Cannot compare null with non-struct">> ELSE <<>>)
               ELSE IF right_t = NULL
               THEN (IF ~is_struct(left_t)
                     THEN <<"Cannot compare null with non-struct">> ELSE <<>>)
               ELSE IF left_t # right_t
               THEN <<"Equality requires matching types">>
               ELSE <<>>)
  ELSE IF op_val \in {"&&", "||"}
  THEN R(BOOL, IF left_t # BOOL \/ right_t # BOOL
               THEN <<"Boolean operators require boolean operands">> ELSE <<>>)
  ELSE R(None, <<>>)

(* visit_binary_expression after both operands have been visited. *)
binary_result(op_val, l, r) ==
  IF ~Truthy(l.t) \/ ~Truthy(r.t) THEN R(None, l.errs \o r.errs)
  ELSE R(binary_check(op_val, l.t, r.t).t,
         l.errs \o r.errs \o binary_check(op_val, l.t, r.t).errs)

visit_binary_expression(expr, A) ==
  binary_result(expr.operator, expr_type(expr.left, A), expr_type(expr.right, A))

(* _expr_type: expr.accept(self), None for a missing expression. *)
expr_type(expr, A) ==
  IF expr = NoNode THEN R(None, <<>>)
  ELSE IF expr.k = "IntegerExpression" THEN R(INT, <<>>)
  ELSE IF expr.k \in {"TrueExpression", "FalseExpression"} THEN R(BOOL, <<>>)
  ELSE IF expr.k = "NullExpression" THEN R(NULL, <<>>)
  ELSE IF expr.k = "ReadExpression" THEN R(INT, <<>>)
  ELSE IF expr.k = "IdentifierExpression" THEN visit_identifier_expression(expr, A)
  ELSE IF expr.k = "DotExpression" THEN visit_dot_expression(expr, A)
  ELSE IF expr.k = "NewExpression" THEN visit_new_expression(expr, A)
  ELSE IF expr.k = "InvocationExpression" THEN visit_invocation_expression(expr, A)
  ELSE IF expr.k = "UnaryExpression" THEN visit_unary_expression(expr, A)
  ELSE IF expr.k = "BinaryExpression" THEN visit_binary_expression(expr, A)
  ELSE R(None, <<>>)

(* The first of the attributes identifier, id, name that the lvalue has. *)
lvalue_name(lval) ==
  IF "identifier" \in DOMAIN lval THEN lval.identifier
  ELSE IF "id" \in DOMAIN lval THEN lval.id
  ELSE lval.name

visit_lvalue_id(lval, A) ==
  LET decl == lookupTable(A.scope, Name(lvalue_name(lval)))
  IN IF decl # NoNode THEN R(Type(decl.type, A.structs), <<>>)
     ELSE R(None, <<"Undefined variable">>)

(* visit_lvalue_dot after the base l has been visited. *)
lvalue_dot_result(l, field_name, ss) ==
  IF ~Truthy(l.t) \/ ~is_struct(l.t)
  THEN R(None, l.errs \o (IF Truthy(l.t) THEN <<"Dot operator requires struct">> ELSE <<>>))
  ELSE IF l.t[2] \notin DOMAIN ss THEN R(None, l.errs)
  ELSE IF has_field(ss[l.t[2]].fields, field_name)
  THEN R(field_type(ss[l.t[2]].fields, field_name, ss), l.errs)
  ELSE R(None, l.errs \o <<"Field not found">>)

(* visit_lvalue_dot: the base is read from the attribute lhs. *)
visit_lvalue_dot(lval, A) ==
  lvalue_dot_result(expr_type(GetAttr(lval, "lhs"), A), Name(lvalue_name(lval)), A.structs)

(* _lvalue_type: lval.accept(self). *)
lvalue_type(lval, A) ==
  IF lval = NoNode THEN R(None, <<>>)
  ELSE IF lval.k = "LValueID" THEN visit_lvalue_id(lval, A)
  ELSE IF lval.k = "LValueDot" THEN visit_lvalue_dot(lval, A)
  ELSE expr_type(lval, A)

-----------------------------------------------------------------------------
(* SemanticAnalyzer, statements.  A.ret is the return type node of the     *)
(* current function.  A visitor returns the diagnostics it reported and    *)
(* the statement as it leaves it (visit_conditional_statement replaces an  *)
(* else block without statements by None).                                 *)

StmtR(es, n) == [errs |-> es, node |-> n]

RECURSIVE visit_statement(_, _)
RECURSIVE visit_statements(_, _)

join_statements(h, t) == StmtR(h.errs \o t.errs, <<h.node>> \o t.node)

(* for s in statements: s.accept(self) *)
visit_statements(ss, A) ==
  IF ss = <<>> THEN StmtR(<<>>, <<>>)
  ELSE join_statements(visit_statement(Head(ss), A), visit_statements(Tail(ss), A))

block_result(stmt, b) == StmtR(b.errs, [stmt EXCEPT !.statements = b.node])

visit_block_statement(stmt, A) == block_result(stmt, visit_statements(stmt.statements, A))

assignment_result(stmt, lhs, rhs) ==
  StmtR(lhs.errs \o rhs.errs \o
        (IF Truthy(lhs.t) /\ Truthy(rhs.t) /\ ~types_match(lhs.t, rhs.t)
         THEN <<"Type mismatch in assignment">> ELSE <<>>),
        stmt)

visit_assignment_statement(stmt, A) ==
  assignment_result(stmt, lvalue_type(stmt.target, A), expr_type(stmt.source, A))

(* getattr(stmt.else_block, "statements", []) *)
else_statements(stmt) ==
  IF "statements" \in DOMAIN stmt.else_block THEN stmt.else_block.statements ELSE <<>>

(* An else block that is visited and kept whenever it is there. *)
else_visited_when_present(stmt) == stmt.else_block # NoNode

(* The else block is visited when it is there and has statements; it is    *)
(* replaced by None when it is there and has none.                         *)
else_visited(stmt) == stmt.else_block # NoNode /\ else_statements(stmt) # <<>>

conditional_result(stmt, c, th, el) ==
  StmtR(c.errs
        \o (IF Truthy(c.t) /\ c.t # BOOL THEN <<"Condition must be a boolean">> ELSE <<>>)
        \o th.errs \o el.errs,
        [stmt EXCEPT !.then_block = th.node, !.else_block = el.node])

visit_conditional_statement(stmt, A) ==
  conditional_result(stmt, expr_type(stmt.guard, A), visit_statement(stmt.then_block, A),
                     IF else_visited(stmt) THEN visit_statement(stmt.else_block, A)
                     ELSE StmtR(<<>>, NoNode))

while_result(stmt, c, b) ==
  StmtR(c.errs
        \o (IF Truthy(c.t) /\ c.t # BOOL THEN <<"Condition must be boolean">> ELSE <<>>)
        \o b.errs,
        [stmt EXCEPT !.body = b.node])

visit_while_statement(stmt, A) ==
  while_result(stmt, expr_type(stmt.guard, A), visit_statement(stmt.body, A))

delete_result(stmt, e) ==
  StmtR(e.errs \o (IF Truthy(e.t) /\ ~is_struct(e.t)
                   THEN <<"delete requires a struct">> ELSE <<>>), stmt)

visit_delete_statement(stmt, A) == delete_result(stmt, expr_type(stmt.expression, A))

invocation_result(stmt, e) == StmtR(e.errs, stmt)

visit_invocation_statement(stmt, A) == invocation_result(stmt, expr_type(stmt.expression, A))

println_result(stmt, e) ==
  StmtR(e.errs \o (IF e.t # INT THEN <<"print requires int">> ELSE <<>>), stmt)

visit_println_statement(stmt, A) == println_result(stmt, expr_type(stmt.expression, A))

print_result(stmt, e) ==
  StmtR(e.errs \o (IF e.t # INT THEN <<"print requires int">> ELSE <<>>), stmt)

visit_print_statement(stmt, A) == print_result(stmt, expr_type(stmt.expression, A))

visit_return_empty_statement(stmt, A) ==
  IF A.ret = NoNode THEN StmtR(<<>>, stmt)
  ELSE StmtR(IF Type(A.ret, A.structs) # VOID
             THEN <<"Non-void function must return value">> ELSE <<>>, stmt)

(* visit_return_statement after the expression e has been visited. *)
return_result(stmt, declared, e) ==
  StmtR(e.errs \o
        (IF declared = VOID THEN <<"a Void function cannot return value">>
         ELSE IF Truthy(e.t) /\ ~types_match(declared, e.t)
         THEN <<"Return type mismatch">>
         ELSE <<>>), stmt)

visit_return_statement(stmt, A) ==
  IF A.ret = NoNode THEN StmtR(<<>>, stmt)
  ELSE IF stmt.expression # NoNode
  THEN return_result(stmt, Type(A.ret, A.structs), expr_type(stmt.expression, A))
  ELSE StmtR(IF Type(A.ret, A.structs) # VOID
             THEN <<"Non-void function must return value">> ELSE <<>>, stmt)

visit_statement(stmt, A) ==
  IF stmt.k = "BlockStatement" THEN visit_block_statement(stmt, A)
  ELSE IF stmt.k = "AssignmentStatement" THEN visit_assignment_statement(stmt, A)
  ELSE IF stmt.k = "ConditionalStatement" THEN visit_conditional_statement(stmt, A)
  ELSE IF stmt.k = "WhileStatement" THEN visit_while_statement(stmt, A)
  ELSE IF stmt.k = "DeleteStatement" THEN visit_delete_statement(stmt, A)
  ELSE IF stmt.k = "InvocationStatement" THEN visit_invocation_statement(stmt, A)
  ELSE IF stmt.k = "PrintLnStatement" THEN visit_println_statement(stmt, A)
  ELSE IF stmt.k = "PrintStatement" THEN visit_print_statement(stmt, A)
  ELSE IF stmt.k = "ReturnEmptyStatement" THEN visit_return_empty_statement(stmt, A)
  ELSE IF stmt.k = "ReturnStatement" THEN visit_return_statement(stmt, A)
  ELSE StmtR(<<>>, stmt)

-----------------------------------------------------------------------------
(* SemanticAnalyzer.visit_function.                                        *)

(* A loop body that lets a repeated name replace the earlier declaration   *)
(* without a diagnostic.                                                   *)
define_one_overwriting(d, D, ss, dup) ==
  [symbols |-> Put(D.symbols, Name(d.name), d),
   errs |-> D.errs
            \o (IF Type(d.type, ss) = None /\ d.type.k = "StructType"
                   /\ Name(d.type.name) \notin DOMAIN ss
                THEN <<"Undefined struct">> ELSE <<>>)]

(* One iteration of the parameter loop or the local loop: the declaration  *)
(* is defined in the function scope unless the scope already has the name, *)
(* and a struct type that does not resolve is reported.  D is              *)
(* [symbols, errs].                                                        *)
define_one(d, D, ss, dup) ==
  [symbols |-> IF lookup_local(D.symbols, Name(d.name)) # NoNode THEN D.symbols
               ELSE Put(D.symbols, Name(d.name), d),
   errs |-> D.errs
            \o (IF lookup_local(D.symbols, Name(d.name)) # NoNode THEN <<dup>> ELSE <<>>)
            \o (IF Type(d.type, ss) = None /\ d.type.k = "StructType"
                   /\ Name(d.type.name) \notin DOMAIN ss
                THEN <<"Undefined struct">> ELSE <<>>)]

RECURSIVE define_all(_, _, _, _)
define_all(decls, D, ss, dup) ==
  IF decls = <<>> THEN D
  ELSE define_all(Tail(decls), define_one(Head(decls), D, ss, dup), ss, dup)

(* The return check on a last statement that returns the expression e. *)
return_check_value(declared, e) ==
  e.errs \o
  (IF Truthy(e.t) /\ declared = VOID THEN <<"Void function cannot return value">>
   ELSE IF Truthy(e.t) /\ ~types_match(declared, e.t) THEN <<"Return type mismatch">>
   ELSE <<>>)

(* A return check that asks nothing of a last statement that is not a      *)
(* return.                                                                 *)
return_check_of_returns_only(func, body, A) ==
  IF body = <<>>
  THEN (IF Type(func.ret_type, A.structs) # VOID THEN <<"Missing return statement">>
        ELSE <<>>)
  ELSE IF body[Len(body)].k = "ReturnEmptyStatement"
  THEN (IF Type(func.ret_type, A.structs) # VOID
        THEN <<"Non-void function must return value">> ELSE <<>>)
  ELSE IF body[Len(body)].k = "ReturnStatement"
  THEN return_check_value(Type(func.ret_type, A.structs),
                          expr_type(body[Len(body)].expression, A))
  ELSE <<>>

(* The return check on the last statement of the body. *)
return_check(func, body, A) ==
  IF body # <<>>
  THEN IF body[Len(body)].k = "ReturnEmptyStatement"
       THEN (IF Type(func.ret_type, A.structs) # VOID
             THEN <<"Non-void function must return value">> ELSE <<>>)
       ELSE IF body[Len(body)].k = "ReturnStatement"
       THEN (IF body[Len(body)].expression # NoNode
             THEN return_check_value(Type(func.ret_type, A.structs),
                                     expr_type(body[Len(body)].expression, A))
             ELSE IF Type(func.ret_type, A.structs) # VOID
             THEN <<"Non-void function must return value">>
             ELSE <<>>)
       ELSE (IF Type(func.ret_type, A.structs) # VOID
             THEN <<"Missing return statement">> ELSE <<>>)
  ELSE IF Type(func.ret_type, A.structs) # VOID THEN <<"Missing return statement">>
  ELSE <<>>

(* visit_function after the body has been visited: [errs, node, scope],    *)
(* scope the symbol map stored in function_scopes.                         *)
function_result(func, L, A, b) ==
  [errs |-> L.errs \o b.errs \o return_check(func, b.node, A),
   node |-> [func EXCEPT !.body = b.node],
   scope |-> L.symbols]

(* visit_function with the function scope L built: the body is visited in  *)
(* the scope chained to the global table.                                  *)
function_body(func, L, A) == function_result(func, L, A, visit_statements(func.body, A))

function_scope(func, ss, fns, gsyms, L) ==
  function_body(func, L, [structs |-> ss, functions |-> fns,
                          scope |-> <<L.symbols, gsyms>>, ret |-> func.ret_type])

visit_function(func, ss, fns, gsyms) ==
  function_scope(func, ss, fns, gsyms,
                 define_all(func.locals,
                            define_all(func.params, [symbols |-> EmptyMap, errs |-> <<>>],
                                       ss, "Duplicate parameter"),
                            ss, "Duplicate local"))

-----------------------------------------------------------------------------
(* code_gen_ast_visitor.py: the emitted lines.  A line is a record: op is  *)
(* the mnemonic, rd/rs/rt/base are registers, imm an integer, label a      *)
(* label; note is the trailing comment where the generator marks a         *)
(* fallback.                                                               *)

Addi(rd, rs, imm) == [op |-> "addi", rd |-> rd, rs |-> rs, imm |-> imm]
Xori(rd, rs, imm) == [op |-> "xori", rd |-> rd, rs |-> rs, imm |-> imm]
Sw(rs, imm, base) == [op |-> "sw", rs |-> rs, imm |-> imm, base |-> base]
Lw(rd, imm, base) == [op |-> "lw", rd |-> rd, imm |-> imm, base |-> base]
LwNote(rd, imm, base, note) ==
  [op |-> "lw", rd |-> rd, imm |-> imm, base |-> base, note |-> note]
La(rd, label) == [op |-> "la", rd |-> rd, label |-> label]
Li(rd, imm) == [op |-> "li", rd |-> rd, imm |-> imm]
Mv(rd, rs) == [op |-> "mv", rd |-> rd, rs |-> rs]
Op2(op, rd, rs) == [op |-> op, rd |-> rd, rs |-> rs]
Op3(op, rd, rs, rt) == [op |-> op, rd |-> rd, rs |-> rs, rt |-> rt]
Jal(label) == [op |-> "jal", label |-> label]
J(label) == [op |-> "j", label |-> label]
Jr(rs) == [op |-> "jr", rs |-> rs]
Beq(rs, rt, label) == [op |-> "beq", rs |-> rs, rt |-> rt, label |-> label]
LabelDef(label) == [op |-> "label", label |-> label]
Space(label, size) == [op |-> ".space", label |-> label, imm |-> size]
Directive(text) == [op |-> "directive", text |-> text]
Comment(text, arg) == [op |-> "#", text |-> text, arg |-> arg]

(* A size table that packs a bool into one byte. *)
type_size_packed_bool(type_node) ==
  IF type_node.k = "BoolType" THEN 1 ELSE 4

(* CodeGenVisitor._type_size *)
type_size(type_node) ==
  IF type_node.k = "IntType" THEN 4
  ELSE IF type_node.k = "BoolType" THEN 4
  ELSE IF type_node.k = "StructType" THEN 4
  ELSE 4

(* CodeGenVisitor._calculate_struct_layout: the value stored in            *)
(* self.structs[name].                                                     *)
RECURSIVE layout_fields(_, _, _)
layout_fields(fields, layout, offset) ==
  IF fields = <<>> THEN [fields |-> layout, size |-> offset]
  ELSE layout_fields(Tail(fields), Put(layout, Name(Head(fields).name), offset),
                     offset + type_size(Head(fields).type))

calculate_struct_layout(tdecl) == layout_fields(tdecl.fields, EmptyMap, 0)

(* CodeGenVisitor.Label *)
Label(prefix, counter) == prefix \o ToString(counter)

-----------------------------------------------------------------------------
(* CodeGenVisitor, expressions.  C is the generator's context: locals,     *)
(* globals, type_environment, structs, current_function and                *)
(* current_locals_size.  The result is the sequence of lines emitted.      *)

(* _get_struct_type; "" stands for None. *)
get_struct_type(expr, C) ==
  IF expr.k = "IdentifierExpression"
  THEN IF expr.id \in DOMAIN C.type_environment
          /\ C.type_environment[expr.id].k = "StructType"
       THEN Name(C.type_environment[expr.id].name)
       ELSE ""
  ELSE IF expr.k = "DotExpression" THEN ""
  ELSE ""

cg_visit_identifier_expression(expr, C) ==
  IF expr.id \in DOMAIN C.locals
  THEN <<Lw("t0", C.locals[expr.id], "fp")>>
  ELSE IF expr.id \in DOMAIN C.globals
  THEN <<La("t1", C.globals[expr.id]), Lw("t0", 0, "t1")>>
  ELSE <<Comment("ERROR: Unknown variable", expr.id), Li("t0", 0)>>

(* An operator table that keeps the operands of > and <= in source order. *)
binary_op_operands_in_source_order(op) ==
  IF op = "+" THEN <<Op3("add", "t0", "t0", "t1")>>
  ELSE IF op = "-" THEN <<Op3("sub", "t0", "t0", "t1")>>
  ELSE IF op = "*" THEN <<Op3("mul", "t0", "t0", "t1")>>
  ELSE IF op = "/" THEN <<Op3("div", "t0", "t0", "t1")>>
  ELSE IF op \in {"<", ">"} THEN <<Op3("slt", "t0", "t0", "t1")>>
  ELSE IF op \in {"<=", ">="} THEN <<Op3("slt", "t0", "t0", "t1"), Xori("t0", "t0", 1)>>
  ELSE IF op = "==" THEN <<Op3("sub", "t0", "t0", "t1"), Op2("seqz", "t0", "t0")>>
  ELSE IF op = "!=" THEN <<Op3("sub", "t0", "t0", "t1"), Op2("snez", "t0", "t0")>>
  ELSE IF op = "&&" THEN <<Op3("and", "t0", "t0", "t1"), Op2("snez", "t0", "t0")>>
  ELSE IF op = "||" THEN <<Op3("or", "t0", "t0", "t1"), Op2("snez", "t0", "t0")>>
  ELSE <<>>

(* visit_binary_expression, the operator chain. *)
binary_op(op) ==
  IF op = "+" THEN <<Op3("add", "t0", "t0", "t1")>>
  ELSE IF op = "-" THEN <<Op3("sub", "t0", "t0", "t1")>>
  ELSE IF op = "*" THEN <<Op3("mul", "t0", "t0", "t1")>>
  ELSE IF op = "/" THEN <<Op3("div", "t0", "t0", "t1")>>
  ELSE IF op = "<" THEN <<Op3("slt", "t0", "t0", "t1")>>
  ELSE IF op = ">" THEN <<Op3("slt", "t0", "t1", "t0")>>
  ELSE IF op = "<=" THEN <<Op3("slt", "t0", "t1", "t0"), Xori("t0", "t0", 1)>>
  ELSE IF op = ">=" THEN <<Op3("slt", "t0", "t0", "t1"), Xori("t0", "t0", 1)>>
  ELSE IF op = "==" THEN <<Op3("sub", "t0", "t0", "t1"), Op2("seqz", "t0", "t0")>>
  ELSE IF op = "!=" THEN <<Op3("sub", "t0", "t0", "t1"), Op2("snez", "t0", "t0")>>
  ELSE IF op = "&&" THEN <<Op3("and", "t0", "t0", "t1"), Op2("snez", "t0", "t0")>>
  ELSE IF op = "||" THEN <<Op3("or", "t0", "t0", "t1"), Op2("snez", "t0", "t0")>>
  ELSE <<>>

RECURSIVE gen_expr(_, _)
RECURSIVE gen_args(_, _, _)

(* A binary visitor that leaves the left operand in t0 while the right one *)
(* is evaluated, instead of pushing it.                                    *)
cg_visit_binary_expression_left_in_register(expr, C) ==
  gen_expr(expr.left, C)
  \o gen_expr(expr.right, C)
  \o <<Mv("t1", "t0")>>
  \o binary_op(expr.operator)

(* A binary visitor that reads the left operand back without releasing    *)
(* its word.                                                               *)
cg_visit_binary_expression_without_release(expr, C) ==
  gen_expr(expr.left, C)
  \o <<Addi("sp", "sp", -4), Sw("t0", 0, "sp")>>
  \o gen_expr(expr.right, C)
  \o <<Mv("t1", "t0"), Lw("t0", 0, "sp")>>
  \o binary_op(expr.operator)

cg_visit_binary_expression(expr, C) ==
  gen_expr(expr.left, C)
  \o <<Addi("sp", "sp", -4), Sw("t0", 0, "sp")>>
  \o gen_expr(expr.right, C)
  \o <<Mv("t1", "t0"), Lw("t0", 0, "sp"), Addi("sp", "sp", 4)>>
  \o binary_op(expr.operator)

cg_visit_unary_expression(expr, C) ==
  gen_expr(expr.operand, C)
  \o (IF expr.operator = "-" THEN <<Op2("neg", "t0", "t0")>>
      ELSE IF expr.operator = "!" THEN <<Op2("seqz", "t0", "t0")>>
      ELSE <<>>)

cg_visit_dot_expression(expr, C) ==
  LET field_name == Name(expr.id)
      struct_type_name == get_struct_type(expr.left, C)
  IN gen_expr(expr.left, C)
     \o <<Mv("t2", "t0")>>
     \o (IF struct_type_name # "" /\ struct_type_name \in DOMAIN C.structs
         THEN LET fields == C.structs[struct_type_name].fields
              IN IF field_name \in DOMAIN fields
                 THEN <<Lw("t0", fields[field_name], "t2")>>
                 ELSE <<Comment("ERROR: Field not found in struct", field_name),
                        Li("t0", 0)>>
         ELSE <<LwNote("t0", 0, "t2", "unknown struct type")>>)

(* for i, arg in enumerate(arguments): arg.accept(self); sw t0, i*4(sp) *)
gen_args(args, i, C) ==
  IF args = <<>> THEN <<>>
  ELSE gen_expr(Head(args), C) \o <<Sw("t0", i * 4, "sp")>> \o gen_args(Tail(args), i + 1, C)

Min(a, b) == IF a < b THEN a ELSE b

ArgRegs == 8

ArgReg(i) == "a" \o ToString(i)

(* A call that moves each argument into its register as soon as it is     *)
(* evaluated, without the stack buffer.                                    *)
RECURSIVE gen_args_to_registers(_, _, _)
gen_args_to_registers(args, i, C) ==
  IF args = <<>> THEN <<>>
  ELSE gen_expr(Head(args), C)
       \o (IF i < ArgRegs THEN <<Mv(ArgReg(i), "t0")>> ELSE <<>>)
       \o gen_args_to_registers(Tail(args), i + 1, C)

cg_visit_invocation_expression_without_staging(expr, C) ==
  gen_args_to_registers(expr.arguments, 0, C) \o <<Jal(Name(expr.name)), Mv("t0", "a0")>>

cg_visit_invocation_expression(expr, C) ==
  LET num_args == Len(expr.arguments)
      temp_stack_space == num_args * 4
  IN (IF temp_stack_space > 0 THEN <<Addi("sp", "sp", -temp_stack_space)>> ELSE <<>>)
     \o gen_args(expr.arguments, 0, C)
     \o [i \in 1..Min(num_args, ArgRegs) |-> Lw(ArgReg(i - 1), (i - 1) * 4, "sp")]
     \o (IF temp_stack_space > 0 THEN <<Addi("sp", "sp", temp_stack_space)>> ELSE <<>>)
     \o <<Jal(Name(expr.name)), Mv("t0", "a0")>>

cg_visit_new_expression(expr, C) ==
  LET sname == Name(expr.id)
      size == IF sname \in DOMAIN C.structs THEN C.structs[sname].size ELSE 4
  IN <<Li("a0", size), Jal("sbrk"), Mv("t0", "a0")>>

cg_visit_read_expression ==
  <<La("t0", "input_file_ptr"), Lw("a0", 0, "t0"), Jal("read_int"), Mv("t0", "a0")>>

gen_expr(expr, C) ==
  IF expr.k = "IntegerExpression" THEN <<Li("t0", expr.value)>>
  ELSE IF expr.k = "TrueExpression" THEN <<Li("t0", 1)>>
  ELSE IF expr.k = "FalseExpression" THEN <<Li("t0", 0)>>
  ELSE IF expr.k = "NullExpression" THEN <<Li("t0", 0)>>
  ELSE IF expr.k = "ReadExpression" THEN cg_visit_read_expression
  ELSE IF expr.k = "IdentifierExpression" THEN cg_visit_identifier_expression(expr, C)
  ELSE IF expr.k = "BinaryExpression" THEN cg_visit_binary_expression(expr, C)
  ELSE IF expr.k = "UnaryExpression" THEN cg_visit_unary_expression(expr, C)
  ELSE IF expr.k = "DotExpression" THEN cg_visit_dot_expression(expr, C)
  ELSE IF expr.k = "InvocationExpression" THEN cg_visit_invocation_expression(expr, C)
  ELSE IF expr.k = "NewExpression" THEN cg_visit_new_expression(expr, C)
  ELSE <<>>

-----------------------------------------------------------------------------
(* CodeGenVisitor, lvalues and statements.  A statement visitor returns    *)
(* the lines it emitted and the label counter it leaves.                   *)

RECURSIVE generate_lvalue_address(_, _)
generate_lvalue_address(lval, C) ==
  IF lval.k = "LValueID"
  THEN (IF Name(lval.id) \in DOMAIN C.locals
        THEN <<Addi("t0", "fp", C.locals[Name(lval.id)])>>
        ELSE IF Name(lval.id) \in DOMAIN C.globals
        THEN <<La("t0", C.globals[Name(lval.id)])>>
        ELSE <<>>)
  ELSE IF lval.k = "LValueDot"
  THEN LET base == IF lval.left.k = "LValueID"
                   THEN (IF Name(lval.left.id) \in DOMAIN C.locals
                         THEN <<Lw("t0", C.locals[Name(lval.left.id)], "fp")>>
                         ELSE IF Name(lval.left.id) \in DOMAIN C.globals
                         THEN <<La("t1", C.globals[Name(lval.left.id)]), Lw("t0", 0, "t1")>>
                         ELSE <<>>)
                   ELSE generate_lvalue_address(lval.left, C)
           field_name == Name(lval.id)
           resolved == /\ lval.left.k = "LValueID"
                       /\ Name(lval.left.id) \in DOMAIN C.type_environment
                       /\ C.type_environment[Name(lval.left.id)].k = "StructType"
                       /\ Name(C.type_environment[Name(lval.left.id)].name) \in DOMAIN C.structs
                       /\ field_name \in DOMAIN
                            C.structs[Name(C.type_environment[Name(lval.left.id)].name)].fields
       IN base \o
          (IF resolved
           THEN <<Addi("t0", "t0",
                       C.structs[Name(C.type_environment[Name(lval.left.id)].name)]
                         .fields[field_name])>>
           ELSE <<Comment("Field address (offset unknown)", field_name)>>)
  ELSE <<>>

G(out, lc) == [out |-> out, lc |-> lc]

(* An epilogue that restores fp and ra without releasing the locals. *)
epilogue_without_release(size) ==
  <<Lw("fp", 0, "sp"), Lw("ra", 4, "sp"), Addi("sp", "sp", 8)>>

(* The epilogue shared by the return paths: release the locals, restore    *)
(* fp and ra, release the two-word prologue area.                          *)
epilogue(size) ==
  (IF size > 0 THEN <<Addi("sp", "sp", size)>> ELSE <<>>)
  \o <<Lw("fp", 0, "sp"), Lw("ra", 4, "sp"), Addi("sp", "sp", 8)>>

cg_visit_return_statement(stmt, C) ==
  gen_expr(stmt.expression, C)
  \o <<Mv("a0", "t0")>>
  \o epilogue(C.current_locals_size)
  \o (IF C.current_function = "main" THEN <<Jal("exit")>> ELSE <<Jr("ra")>>)

(* An empty return that hands control back to the caller in every          *)
(* function, main included.                                                *)
cg_visit_return_empty_statement_to_caller(stmt, C) ==
  epilogue(C.current_locals_size) \o <<Jr("ra")>>

cg_visit_return_empty_statement(stmt, C) ==
  epilogue(C.current_locals_size)
  \o (IF C.current_function = "main" THEN <<Li("a0", 0), Jal("exit")>> ELSE <<Jr("ra")>>)

cg_visit_assignment_statement(stmt, C) ==
  gen_expr(stmt.source, C)
  \o <<Mv("t1", "t0")>>
  \o generate_lvalue_address(stmt.target, C)
  \o <<Sw("t1", 0, "t0")>>

cg_visit_print_statement(stmt, C) ==
  gen_expr(stmt.expression, C) \o <<Mv("a0", "t0"), Jal("print_int")>>

cg_visit_println_statement(stmt, C) ==
  gen_expr(stmt.expression, C)
  \o <<Mv("a0", "t0"), Jal("print_int"), Li("a0", 10), Jal("print_char")>>

RECURSIVE gen_stmt(_, _, _)
RECURSIVE gen_stmts(_, _, _)

join_code(h, t) == G(h.out \o t.out, t.lc)

(* The statements after the first, generated from the label counter the    *)
(* first one left.                                                         *)
gen_rest(h, ss, C) == join_code(h, gen_stmts(ss, C, h.lc))

(* for s in statements: s.accept(self) *)
gen_stmts(ss, C, lc) ==
  IF ss = <<>> THEN G(<<>>, lc)
  ELSE gen_rest(gen_stmt(Head(ss), C, lc), Tail(ss), C)

(* stmt.else_block and hasattr(stmt.else_block, 'statements') and          *)
(* stmt.else_block.statements                                              *)
has_else(stmt) ==
  /\ stmt.else_block # NoNode
  /\ "statements" \in DOMAIN stmt.else_block
  /\ stmt.else_block.statements # <<>>

(* visit_conditional_statement with both blocks generated: else_label and  *)
(* end_label took the counter values lc and lc + 1.                        *)
conditional_code(stmt, C, lc, th, el) ==
  G(gen_expr(stmt.guard, C)
    \o <<Beq("t0", "zero", Label("else", lc))>>
    \o th.out
    \o <<J(Label("endif", lc + 1)), LabelDef(Label("else", lc))>>
    \o el.out
    \o <<LabelDef(Label("endif", lc + 1))>>,
    el.lc)

conditional_else(stmt, C, lc, th) ==
  conditional_code(stmt, C, lc, th,
                   IF has_else(stmt) THEN gen_stmt(stmt.else_block, C, th.lc)
                   ELSE G(<<>>, th.lc))

cg_visit_conditional_statement(stmt, C, lc) ==
  conditional_else(stmt, C, lc, gen_stmt(stmt.then_block, C, lc + 2))

(* visit_while_statement with the body generated: start_label and          *)
(* end_label took the counter values lc and lc + 1.                        *)
while_code(stmt, C, lc, b) ==
  G(<<LabelDef(Label("while_start", lc))>>
    \o gen_expr(stmt.guard, C)
    \o <<Beq("t0", "zero", Label("while_end", lc + 1))>>
    \o b.out
    \o <<J(Label("while_start", lc)), LabelDef(Label("while_end", lc + 1))>>,
    b.lc)

cg_visit_while_statement(stmt, C, lc) ==
  while_code(stmt, C, lc, gen_stmt(stmt.body, C, lc + 2))

gen_stmt(stmt, C, lc) ==
  IF stmt.k = "BlockStatement" THEN gen_stmts(stmt.statements, C, lc)
  ELSE IF stmt.k = "AssignmentStatement" THEN G(cg_visit_assignment_statement(stmt, C), lc)
  ELSE IF stmt.k = "PrintStatement" THEN G(cg_visit_print_statement(stmt, C), lc)
  ELSE IF stmt.k = "PrintLnStatement" THEN G(cg_visit_println_statement(stmt, C), lc)
  ELSE IF stmt.k = "ConditionalStatement" THEN cg_visit_conditional_statement(stmt, C, lc)
  ELSE IF stmt.k = "WhileStatement" THEN cg_visit_while_statement(stmt, C, lc)
  ELSE IF stmt.k = "DeleteStatement" THEN G(gen_expr(stmt.expression, C), lc)
  ELSE IF stmt.k = "ReturnStatement" THEN G(cg_visit_return_statement(stmt, C), lc)
  ELSE IF stmt.k = "ReturnEmptyStatement" THEN G(cg_visit_return_empty_statement(stmt, C), lc)
  ELSE IF stmt.k = "InvocationStatement" THEN G(gen_expr(stmt.expression, C), lc)
  ELSE G(<<>>, lc)

-----------------------------------------------------------------------------
(* CodeGenVisitor.visit_function.                                          *)

(* The slot loops: each parameter, then each local, takes the next word    *)
(* below fp.  L is [locals, offset, total].                                *)
RECURSIVE assign_slots(_, _)
assign_slots(decls, L) ==
  IF decls = <<>> THEN L
  ELSE assign_slots(Tail(decls),
                    [locals |-> Put(L.locals, Name(Head(decls).name),
                                    -(L.offset + type_size(Head(decls).type))),
                     offset |-> L.offset + type_size(Head(decls).type),
                     total |-> L.total + type_size(Head(decls).type)])

RECURSIVE type_env_of(_, _)
type_env_of(decls, env) ==
  IF decls = <<>> THEN env
  ELSE type_env_of(Tail(decls), Put(env, Name(Head(decls).name), Head(decls).type))

(* local_type_env *)
local_type_env(func) == type_env_of(func.locals, type_env_of(func.params, EmptyMap))

(* sw a<i>, offset(fp) for the first eight parameters *)
save_params(params, slots) ==
  [i \in 1..Min(Len(params), ArgRegs) |->
     Sw(ArgReg(i - 1), slots[Name(params[i].name)], "fp")]

ends_with_return(body) ==
  body # <<>> /\ body[Len(body)].k \in {"ReturnStatement", "ReturnEmptyStatement"}

(* A default return that only main gets. *)
implicit_return_for_main_only(fname, body, total_locals_size) ==
  IF fname = "main" /\ ~ends_with_return(body)
  THEN <<Comment("Implicit return from main", "")>>
       \o epilogue(total_locals_size)
       \o <<Li("a0", 0), Jal("exit")>>
  ELSE <<>>

(* The default return emitted after a body that does not end in a return.  *)
implicit_return(fname, body, total_locals_size) ==
  IF fname = "main"
  THEN (IF ~ends_with_return(body)
        THEN <<Comment("Implicit return from main", "")>>
             \o epilogue(total_locals_size)
             \o <<Li("a0", 0), Jal("exit")>>
        ELSE <<>>)
  ELSE (IF ~ends_with_return(body)
        THEN <<Comment("Implicit return", "")>>
             \o epilogue(total_locals_size)
             \o <<Jr("ra")>>
        ELSE <<>>)

(* visit_function with the body generated: the lines emitted and the       *)
(* fields it leaves (label_counter, locals, type_environment,              *)
(* current_locals_size).                                                   *)
function_code(func, C, rd, b) ==
  [out |-> <<LabelDef(Name(func.name)),
             Addi("sp", "sp", -8), Sw("ra", 4, "sp"), Sw("fp", 0, "sp"),
             Addi("fp", "sp", 0)>>
           \o (IF Name(func.name) = "main" /\ rd
               THEN <<Comment("Save input filename", ""), Lw("t0", 4, "a1"),
                      La("t1", "input_file_ptr"), Sw("t0", 0, "t1")>>
               ELSE <<>>)
           \o (IF C.current_locals_size > 0
               THEN <<Addi("sp", "sp", -C.current_locals_size)>> ELSE <<>>)
           \o save_params(func.params, C.locals)
           \o b.out
           \o implicit_return(Name(func.name), func.body, C.current_locals_size)
           \o <<Directive("")>>,
   lc |-> b.lc,
   locals |-> C.locals,
   type_environment |-> Del(C.type_environment, DOMAIN local_type_env(func)),
   current_locals_size |-> C.current_locals_size]

function_body_code(func, lc, C, rd) == function_code(func, C, rd, gen_stmts(func.body, C, lc))

function_frame(func, lc, tenv, cstructs, cglobals, rd, L) ==
  function_body_code(func, lc,
                     [locals |-> L.locals, globals |-> cglobals,
                      type_environment |-> Update(tenv, local_type_env(func)),
                      structs |-> cstructs, current_function |-> Name(func.name),
                      current_locals_size |-> L.total],
                     rd)

cg_visit_function(func, lc, tenv, cstructs, cglobals, rd) ==
  function_frame(func, lc, tenv, cstructs, cglobals, rd,
                 assign_slots(func.locals,
                              assign_slots(func.params,
                                           [locals |-> EmptyMap, offset |-> 0, total |-> 0])))

(* A scan that sees a read only when it is the whole expression. *)
check_expr_top_level_only(expr) == expr # NoNode /\ expr.k = "ReadExpression"

(* CodeGenVisitor._check_for_read *)
RECURSIVE check_expr(_)
check_expr(expr) ==
  IF expr = NoNode THEN FALSE
  ELSE IF expr.k = "ReadExpression" THEN TRUE
  ELSE IF expr.k = "BinaryExpression" THEN check_expr(expr.left) \/ check_expr(expr.right)
  ELSE IF expr.k = "UnaryExpression" THEN check_expr(expr.operand)
  ELSE IF expr.k = "DotExpression" THEN check_expr(expr.left)
  ELSE IF expr.k = "InvocationExpression"
       THEN \E i \in DOMAIN expr.arguments : check_expr(expr.arguments[i])
  ELSE FALSE

RECURSIVE check_stmt(_)
check_stmt(stmt) ==
  IF stmt = NoNode THEN FALSE
  ELSE IF stmt.k = "AssignmentStatement" THEN check_expr(stmt.source)
  ELSE IF stmt.k = "BlockStatement"
       THEN \E i \in DOMAIN stmt.statements : check_stmt(stmt.statements[i])
  ELSE IF stmt.k = "ConditionalStatement"
       THEN check_expr(stmt.guard) \/ check_stmt(stmt.then_block)
            \/ check_stmt(stmt.else_block)
  ELSE IF stmt.k = "WhileStatement" THEN check_expr(stmt.guard) \/ check_stmt(stmt.body)
  ELSE IF stmt.k \in {"PrintStatement", "PrintLnStatement", "ReturnStatement",
                      "DeleteStatement", "InvocationStatement"}
       THEN check_expr(stmt.expression)
  ELSE FALSE

check_for_read(prog) ==
  \E i \in DOMAIN prog.functions :
    \E j \in DOMAIN prog.functions[i].body : check_stmt(prog.functions[i].body[j])

-----------------------------------------------------------------------------
(* SemanticAnalyzer.visit_program, one step per loop iteration.            *)

(* visit_type_declaration: the diagnostics of one struct declaration. *)
RECURSIVE check_fields(_, _, _, _)
check_fields(fields, seen, struct_name, ss) ==
  IF fields = <<>> THEN <<>>
  ELSE LET f == Head(fields)
           fname == Name(f.name)
           e1 == IF fname \in seen THEN <<"Duplicate field">> ELSE <<>>
           e2 == IF Type(f.type, ss) = None /\ f.type.k = "StructType"
                    /\ Name(f.type.name) # struct_name
                    /\ Name(f.type.name) \notin DOMAIN ss
                 THEN <<"Undefined struct">> ELSE <<>>
       IN e1 \o e2 \o check_fields(Tail(fields), seen \cup {fname}, struct_name, ss)

(* A visit that treats the struct being declared as not yet registered    *)
(* and has no exception for it.                                            *)
visit_type_declaration_self_unregistered(tdecl, ss) ==
  check_fields(tdecl.fields, {}, "", Del(ss, {Name(tdecl.name)}))

visit_type_declaration(tdecl, ss) == check_fields(tdecl.fields, {}, Name(tdecl.name), ss)

(* visit_struct_type, reached through decl.type.accept(self) *)
visit_struct_type(t, ss) ==
  IF t.k = "StructType" /\ Name(t.name) \notin DOMAIN ss
  THEN <<"Undefined struct">> ELSE <<>>

(* An order that checks the function bodies before the functions are      *)
(* registered.                                                             *)
AnalyzePhases_bodies_before_registration ==
  <<"types", "globals", "check", "register", "main">>

(* An order that validates the entry point before the function bodies. *)
AnalyzePhases_main_before_bodies == <<"types", "globals", "register", "main", "check">>

(* The loops of visit_program in order; the main check is the last step. *)
AnalyzePhases == <<"types", "globals", "register", "check", "main">>

(* The loops of CodeGenVisitor.visit_program; the header step emits the    *)
(* file header and the data section between the two loops.                 *)
GenPhases == <<"layout", "header", "functions">>

PhaseLen(prog, ph) ==
  IF ph \in {"types", "layout"} THEN Len(prog.types)
  ELSE IF ph = "globals" THEN Len(prog.declarations)
  ELSE IF ph \in {"register", "check", "functions"} THEN Len(prog.functions)
  ELSE 1

RECURSIVE FirstPhase(_, _, _)
FirstPhase(prog, order, j) ==
  IF j > Len(order) THEN "end"
  ELSE IF PhaseLen(prog, order[j]) > 0 THEN order[j]
  ELSE FirstPhase(prog, order, j + 1)

PhaseIndex(order, ph) == CHOOSE j \in DOMAIN order : order[j] = ph

(* The position after iteration i of loop ph. *)
After(prog, order, ph, i) ==
  IF i < PhaseLen(prog, ph) THEN [phase |-> ph, idx |-> i + 1]
  ELSE [phase |-> FirstPhase(prog, order, PhaseIndex(order, ph) + 1), idx |-> 1]

(* self.functions holds references to the Function nodes of the program. *)
FunctionsOf(prog, fns) == [n \in DOMAIN fns |-> prog.functions[fns[n]]]

(* A counter that counts the visits that reported, not the reports. *)
Report_one_per_visit(es) ==
  /\ errors' = errors + (IF es = <<>> THEN 0 ELSE 1)
  /\ diags' = diags \o es

Report(es) ==
  /\ errors' = errors + Len(es)
  /\ diags' = diags \o es

GenVars == <<output, label_counter, cg_structs, cg_globals, locals,
             type_environment, current_locals_size, read, written>>

Goto(pos) ==
  /\ phase' = pos.phase
  /\ idx' = pos.idx

-----------------------------------------------------------------------------
(* mini_compiler.main: the pipeline.  pc is the driver's position.         *)

MaxSyntaxErrors == 1

(* Lines 29-43: lexing, parsing and AST creation; exit on syntax errors. *)
Parse ==
  /\ pc = "Start"
  /\ \E n \in 0..MaxSyntaxErrors :
       /\ syntaxErrors' = n
       /\ pc' = IF n > 0 THEN "Exit" ELSE "Parsed"
  /\ UNCHANGED <<phase, idx, ioOk, program, errors, diags, structs, globals, functions,
                 function_scopes, returned>>
  /\ UNCHANGED GenVars

(* Lines 53-54: SemanticAnalyzer() and the call of analyze. *)
AnalyzeBegin ==
  /\ pc = "Parsed"
  /\ pc' = "Analyzing"
  /\ Goto([phase |-> FirstPhase(program, AnalyzePhases, 1), idx |-> 1])
  /\ errors' = 0
  /\ diags' = <<>>
  /\ structs' = EmptyMap
  /\ globals' = EmptyMap
  /\ functions' = EmptyMap
  /\ function_scopes' = EmptyMap
  /\ UNCHANGED <<syntaxErrors, ioOk, program, returned>>
  /\ UNCHANGED GenVars

(* visit_program, the struct loop: register the struct, visit it. *)
VisitType ==
  /\ pc = "Analyzing" /\ phase = "types"
  /\ LET t == program.types[idx]
         name == Name(t.name)
         dup == name \in DOMAIN structs
         ss == IF dup THEN structs ELSE Put(structs, name, t)
     IN /\ structs' = ss
        /\ Report((IF dup THEN <<"Duplicate struct">> ELSE <<>>)
                  \o visit_type_declaration(t, ss))
  /\ Goto(After(program, AnalyzePhases, phase, idx))
  /\ UNCHANGED <<pc, syntaxErrors, ioOk, program, globals, functions, function_scopes,
                 returned>>
  /\ UNCHANGED GenVars

(* visit_program, the global loop. *)
VisitGlobal ==
  /\ pc = "Analyzing" /\ phase = "globals"
  /\ LET decl == program.declarations[idx]
         dname == Name(decl.name)
         dup == lookup_local(globals, dname) # NoNode
     IN /\ globals' = IF dup THEN globals ELSE Put(globals, dname, decl)
        /\ Report((IF dup THEN <<"Duplicate global">> ELSE <<>>)
                  \o (IF Type(decl.type, structs) = None /\ decl.type.k = "StructType"
                      THEN <<"Undefined struct">> ELSE <<>>)
                  \o visit_struct_type(decl.type, structs))
  /\ Goto(After(program, AnalyzePhases, phase, idx))
  /\ UNCHANGED <<pc, syntaxErrors, ioOk, program, structs, functions, function_scopes,
                 returned>>
  /\ UNCHANGED GenVars

(* visit_program, the registration loop. *)
RegisterFunction ==
  /\ pc = "Analyzing" /\ phase = "register"
  /\ LET fname == Name(program.functions[idx].name)
         dup == fname \in DOMAIN functions
     IN /\ functions' = IF dup THEN functions ELSE Put(functions, fname, idx)
        /\ Report(IF dup THEN <<"Duplicate function">> ELSE <<>>)
  /\ Goto(After(program, AnalyzePhases, phase, idx))
  /\ UNCHANGED <<pc, syntaxErrors, ioOk, program, structs, globals, function_scopes,
                 returned>>
  /\ UNCHANGED GenVars

(* The effect of func.accept(self) on the analyzer, v the result of        *)
(* visit_function.                                                         *)
Checked(v) ==
  /\ program' = [program EXCEPT !.functions[idx] = v.node]
  /\ function_scopes' = Put(function_scopes, Name(v.node.name), v.scope)
  /\ Report(v.errs)

(* visit_program, the checking loop: func.accept(self). *)
CheckFunction ==
  /\ pc = "Analyzing" /\ phase = "check"
  /\ Checked(visit_function(program.functions[idx], structs,
                            FunctionsOf(program, functions), globals))
  /\ Goto(After(program, AnalyzePhases, phase, idx))
  /\ UNCHANGED <<pc, syntaxErrors, ioOk, structs, globals, functions, returned>>
  /\ UNCHANGED GenVars

(* A main check that looks at the parameters only. *)
check_main_parameters_only(prog, fns, ss) ==
  IF "main" \notin DOMAIN fns THEN <<"Main() function id missing">>
  ELSE IF Len(prog.functions[fns["main"]].params) # 0
  THEN <<"main() function takes no arguments">>
  ELSE <<>>

(* The diagnostics of the main check. *)
check_main(prog, fns, ss) ==
  IF "main" \notin DOMAIN fns THEN <<"Main() function id missing">>
  ELSE LET main_fn == prog.functions[fns["main"]]
       IN (IF Len(main_fn.params) # 0 THEN <<"main() function takes no arguments">>
           ELSE <<>>)
          \o (IF Type(main_fn.ret_type, ss) # INT THEN <<"main() must return an int">>
              ELSE <<>>)

(* visit_program, the main check; analyze then returns self.errors. *)
CheckMain ==
  /\ pc = "Analyzing" /\ phase = "main"
  /\ LET es == check_main(program, functions, structs)
     IN /\ Report(es)
        /\ returned' = errors + Len(es)
  /\ pc' = "Analyzed"
  /\ Goto([phase |-> "end", idx |-> 1])
  /\ UNCHANGED <<syntaxErrors, ioOk, program, structs, globals, functions, function_scopes>>
  /\ UNCHANGED GenVars

(* A guard of main that lets one error through. *)
has_errors_above_one(n) == n > 1

(* Line 57: if errors > 0 *)
has_errors(n) == n > 0

(* Lines 57-59: exit when analyze returned errors. *)
Abort ==
  /\ pc = "Analyzed"
  /\ has_errors(returned)
  /\ pc' = "Exit"
  /\ UNCHANGED <<phase, idx, syntaxErrors, ioOk, program, errors, diags, structs, globals,
                 functions, function_scopes, returned>>
  /\ UNCHANGED GenVars

AnalyzerVars == <<errors, diags, structs, globals, functions, function_scopes, returned>>

(* Lines 67-68: CodeGenVisitor() and mini_ast.accept(codegen). *)
GenerateBegin ==
  /\ pc = "Analyzed"
  /\ ~has_errors(returned)
  /\ pc' = "Generating"
  /\ Goto([phase |-> FirstPhase(program, GenPhases, 1), idx |-> 1])
  /\ output' = <<>>
  /\ label_counter' = 0
  /\ cg_structs' = EmptyMap
  /\ cg_globals' = EmptyMap
  /\ locals' = EmptyMap
  /\ type_environment' = EmptyMap
  /\ current_locals_size' = 0
  /\ read' = FALSE
  /\ UNCHANGED <<syntaxErrors, ioOk, program, written>>
  /\ UNCHANGED AnalyzerVars

(* pc after a generator step: visit_program returns after its last loop. *)
GenGoto(pos) ==
  /\ Goto(pos)
  /\ pc' = IF pos.phase = "end" THEN "Generated" ELSE "Generating"

(* CodeGenVisitor.visit_program, the layout loop. *)
CalculateLayout ==
  /\ pc = "Generating" /\ phase = "layout"
  /\ cg_structs' = Put(cg_structs, Name(program.types[idx].name),
                       calculate_struct_layout(program.types[idx]))
  /\ GenGoto(After(program, GenPhases, phase, idx))
  /\ UNCHANGED <<syntaxErrors, ioOk, program, output, label_counter, cg_globals, locals,
                 type_environment, current_locals_size, read, written>>
  /\ UNCHANGED AnalyzerVars

(* The data section: one slot per global, in declaration order. *)
RECURSIVE global_slots(_)
global_slots(decls) ==
  IF decls = <<>> THEN <<>>
  ELSE <<Space("global_" \o Name(Head(decls).name), type_size(Head(decls).type))>>
       \o global_slots(Tail(decls))

RECURSIVE global_labels(_, _)
global_labels(decls, m) ==
  IF decls = <<>> THEN m
  ELSE global_labels(Tail(decls),
                     Put(m, Name(Head(decls).name), "global_" \o Name(Head(decls).name)))

(* CodeGenVisitor.visit_program, lines 48-81: the type environment of the  *)
(* globals, the header, the read scan and the data section.                *)
EmitHeader ==
  /\ pc = "Generating" /\ phase = "header"
  /\ LET rd == check_for_read(program)
     IN /\ read' = rd
        /\ type_environment' = type_env_of(program.declarations, type_environment)
        /\ cg_globals' = global_labels(program.declarations, cg_globals)
        /\ output' = output
             \o <<Directive(".globl main"), Directive(".import berkeley_utils.s")>>
             \o (IF rd THEN <<Directive(".import read_int.s")>> ELSE <<>>)
             \o <<Directive(""), Directive(".data")>>
             \o (IF rd THEN <<Space("input_file_ptr", 4)>> ELSE <<>>)
             \o global_slots(program.declarations)
             \o <<Directive(""), Directive(".text"), Directive("")>>
  /\ GenGoto(After(program, GenPhases, phase, idx))
  /\ UNCHANGED <<syntaxErrors, ioOk, program, label_counter, cg_structs, locals,
                 current_locals_size, written>>
  /\ UNCHANGED AnalyzerVars

(* An effect that starts the label counter again for the next function. *)
Generated_counter_reset(g) ==
  /\ output' = output \o g.out
  /\ label_counter' = 0
  /\ locals' = g.locals
  /\ type_environment' = g.type_environment
  /\ current_locals_size' = g.current_locals_size

(* The effect of func.accept(self) on the generator, g the result of       *)
(* visit_function.                                                         *)
Generated(g) ==
  /\ output' = output \o g.out
  /\ label_counter' = g.lc
  /\ locals' = g.locals
  /\ type_environment' = g.type_environment
  /\ current_locals_size' = g.current_locals_size

(* CodeGenVisitor.visit_program, the function loop: func.accept(self). *)
GenerateFunction ==
  /\ pc = "Generating" /\ phase = "functions"
  /\ Generated(cg_visit_function(program.functions[idx], label_counter, type_environment,
                                 cg_structs, cg_globals, read))
  /\ GenGoto(After(program, GenPhases, phase, idx))
  /\ UNCHANGED <<syntaxErrors, ioOk, program, cg_structs, cg_globals, read, written>>
  /\ UNCHANGED AnalyzerVars

(* Lines 69-80: get_code and the write of the .s file; an IOError exits. *)
Write ==
  /\ pc = "Generated"
  /\ \E ok \in BOOLEAN :
       /\ ioOk' = ok
       /\ pc' = IF ok THEN "Emitted" ELSE "Exit"
       /\ written' = IF ok THEN output ELSE written
  /\ UNCHANGED <<phase, idx, syntaxErrors, program, output, label_counter, cg_structs,
                 cg_globals, locals, type_environment, current_locals_size, read>>
  /\ UNCHANGED AnalyzerVars

-----------------------------------------------------------------------------
(* The programs compiled: the front end's output, drawn from bounded       *)
(* families.  The declaration families vary the struct, global, parameter  *)
(* and local declarations; the statement family varies the body of one     *)
(* function t inside a fixed, correct program.                             *)

MaxFields == 2
MaxGlobals == 2
MaxParams == 2
MaxLocals == 1

(* All sequences over T of length at most n. *)
RECURSIVE SeqsUpTo(_, _)
SeqsUpTo(T, n) ==
  IF n = 0 THEN {<<>>}
  ELSE LET shorter == SeqsUpTo(T, n - 1)
       IN shorter \cup {Append(q, x) : q \in {r \in shorter : Len(r) = n - 1}, x \in T}

Id(n) == IdentifierExpression(n)
Block(ss) == BlockStatement(ss)
RetInt == ReturnTypeReal(IntType)
RetBool == ReturnTypeReal(BoolType)
RetStruct(n) == ReturnTypeReal(StructType(n))

NodeDecl ==
  TypeDeclaration("Node", <<Declaration(StructType("Node"), "next"),
                            Declaration(IntType, "value")>>)

MainOk == Function("main", <<>>, <<>>, RetInt, <<ReturnStatement(IntegerExpression(0))>>)

(* Family 1: one struct, every field list. *)
FieldOpts ==
  {Declaration(t, n) : t \in {IntType, BoolType, StructType("Node"), StructType("P")},
                       n \in {"x", "y", "z"}}

StructPrograms ==
  {Program(<<TypeDeclaration("Node", fs)>>, <<>>, <<MainOk>>) :
     fs \in SeqsUpTo(FieldOpts, MaxFields)}

(* Family 2: two structs, in either order and with repeated names. *)
SomeFields ==
  {<<>>, <<Declaration(IntType, "x")>>, <<Declaration(StructType("P"), "x")>>,
   <<Declaration(StructType("Node"), "x"), Declaration(IntType, "x")>>}

TwoStructPrograms ==
  {Program(<<TypeDeclaration(n1, f1), TypeDeclaration(n2, f2)>>, <<>>, <<MainOk>>) :
     n1 \in {"Node", "P"}, n2 \in {"Node", "P"}, f1 \in SomeFields, f2 \in SomeFields}

(* Family 3: the globals. *)
GlobalOpts ==
  {Declaration(t, n) : t \in {IntType, StructType("Node"), StructType("Zed")},
                       n \in {"g", "h"}}

GlobalPrograms ==
  {Program(<<NodeDecl>>, gs, <<MainOk>>) : gs \in SeqsUpTo(GlobalOpts, MaxGlobals)}

(* Family 4: parameters and locals of a function s, some of them named as  *)
(* the global g; s uses g as a bool, a struct or an int, and the function  *)
(* o after it uses g as the global int.                                    *)
ParamOpts == {Declaration(t, n) : t \in {BoolType, StructType("Node")}, n \in {"a", "g"}}

LocalOpts ==
  {Declaration(BoolType, n) : n \in {"a", "b", "g"}} \cup {Declaration(StructType("Node"), "g")}

UseG ==
  {<<WhileStatement(Id("g"), Block(<<>>))>>,
   <<DeleteStatement(Id("g"))>>,
   <<PrintLnStatement(Id("g"))>>}

ScopePrograms ==
  {Program(<<NodeDecl>>, <<Declaration(IntType, "g")>>,
           <<Function("s", ps, ls, ReturnTypeVoid, b),
             Function("o", <<>>, <<>>, ReturnTypeVoid, <<PrintLnStatement(Id("g"))>>),
             MainOk>>) :
     ps \in SeqsUpTo(ParamOpts, MaxParams), ls \in SeqsUpTo(LocalOpts, MaxLocals),
     b \in UseG}

(* Family 5: the statements.  The fixed part: struct Node, globals total   *)
(* and gn, the functions f and mk, and main.                               *)
EnvGlobals == <<Declaration(IntType, "total"), Declaration(StructType("Node"), "gn")>>

FunF ==
  Function("f", <<Declaration(IntType, "a"), Declaration(StructType("Node"), "n")>>, <<>>,
           RetInt, <<ReturnStatement(Id("a"))>>)

FunMk == Function("mk", <<>>, <<>>, RetStruct("Node"), <<ReturnStatement(NewExpression("Node"))>>)

FunT(rt, body) ==
  Function("t", <<Declaration(IntType, "i"), Declaration(BoolType, "b"),
                  Declaration(StructType("Node"), "p")>>, <<>>, rt, body)

(* The position of t in the function list. *)
TIdx == Len(<<FunF, FunMk>>) + 1

StmtProgram(rt, body) ==
  Program(<<NodeDecl>>, EnvGlobals, <<FunF, FunMk, FunT(rt, body), MainOk>>)

(* Expressions: i is an int, b a bool, p a Node, u is undeclared. *)
Atoms ==
  {IntegerExpression(1), TrueExpression, NullExpression, Id("i"), Id("b"), Id("p"), Id("u")}

ArgAtoms == {Id("i"), Id("b"), Id("p"), NullExpression}

Operators == {"+", "-", "*", "/", "<", ">", "<=", ">=", "==", "!=", "&&", "||"}

MaxArgs == 3

Calls ==
  {InvocationExpression("f", as) : as \in SeqsUpTo(ArgAtoms, MaxArgs)}
  \cup {InvocationExpression("f", <<Id("u")>>),
        InvocationExpression("f", <<Id("u"), Id("p")>>),
        InvocationExpression("f", <<InvocationExpression("f", <<Id("i"), Id("p")>>),
                                    Id("p")>>),
        InvocationExpression("mk", <<>>),
        InvocationExpression("mk", <<Id("i")>>),
        InvocationExpression("nf", <<>>)}

Dots ==
  {DotExpression(e, fd) : e \in {Id("p"), Id("gn"), Id("i"), Id("u")},
                          fd \in {"value", "next", "zz"}}
  \cup {DotExpression(DotExpression(Id("p"), "next"), "value"),
        DotExpression(DotExpression(Id("p"), "next"), "next"),
        DotExpression(InvocationExpression("mk", <<>>), "value")}

Exprs ==
  Atoms
  \cup {FalseExpression, ReadExpression, Id("total"), Id("gn"),
        NewExpression("Node"), NewExpression("Zed")}
  \cup Dots
  \cup Calls
  \cup {UnaryExpression(op, e) : op \in {"-", "!"}, e \in Atoms}
  \cup {BinaryExpression(op, l, r) :
          op \in {"+", "<", "==", "!=", "&&"},
          l \in Atoms \ {IntegerExpression(1)}, r \in Atoms \ {IntegerExpression(1)}}
  \cup {BinaryExpression(op, Id("i"), IntegerExpression(1)) : op \in Operators}

SomeExprs ==
  {IntegerExpression(1), TrueExpression, NullExpression, Id("i"), Id("b"), Id("p"),
   Id("u"), Id("total"), ReadExpression, NewExpression("Node"),
   DotExpression(Id("p"), "value"), DotExpression(Id("p"), "next"),
   DotExpression(Id("p"), "zz"),
   DotExpression(DotExpression(Id("p"), "next"), "value"),
   BinaryExpression("+", Id("i"), IntegerExpression(1)),
   InvocationExpression("f", <<Id("i"), Id("p")>>),
   InvocationExpression("mk", <<>>)}

LValues ==
  {LValueID(n) : n \in {"i", "b", "p", "u", "total", "gn"}}
  \cup {LValueDot(LValueID(n), fd) : n \in {"p", "gn"}, fd \in {"value", "next", "zz"}}
  \cup {LValueDot(LValueID("i"), "value"),
        LValueDot(LValueDot(LValueID("p"), "next"), "value")}

RetTypes == {RetInt, RetBool, RetStruct("Node"), ReturnTypeVoid}

TinyExprs == {IntegerExpression(1), TrueExpression, Id("u")}

Returns == {ReturnStatement(e) : e \in TinyExprs} \cup {ReturnEmptyStatement}

StmtPrograms ==
  {StmtProgram(ReturnTypeVoid, <<PrintLnStatement(e)>>) : e \in Exprs}
  \cup {StmtProgram(ReturnTypeVoid, <<InvocationStatement(c)>>) : c \in Calls}
  \cup {StmtProgram(ReturnTypeVoid, <<AssignmentStatement(lv, e)>>) :
          lv \in LValues, e \in SomeExprs}
  \cup {StmtProgram(ReturnTypeVoid, <<st>>) :
          st \in {PrintStatement(e) : e \in SomeExprs}
                 \cup {DeleteStatement(e) : e \in SomeExprs}
                 \cup {WhileStatement(e, Block(<<PrintLnStatement(Id("i"))>>)) :
                         e \in SomeExprs}
                 \cup {ConditionalStatement(e, Block(<<PrintLnStatement(Id("i"))>>), el) :
                         e \in SomeExprs,
                         el \in {NoNode, Block(<<>>), Block(<<PrintLnStatement(Id("u"))>>)}}}
  \cup {StmtProgram(rt, <<ReturnStatement(e)>>) : rt \in RetTypes, e \in SomeExprs}
  \cup {StmtProgram(rt, b) :
          rt \in RetTypes,
          b \in {<<>>, <<ReturnEmptyStatement>>, <<PrintLnStatement(Id("i"))>>}
                \cup {<<r1, r2>> : r1 \in Returns, r2 \in Returns}
                \cup {<<r1, PrintLnStatement(Id("i"))>> : r1 \in Returns}
                \cup {<<ConditionalStatement(Id("b"), Block(<<r1>>), Block(<<r2>>))>> :
                        r1 \in Returns, r2 \in Returns}
                \cup {<<ConditionalStatement(Id("b"), Block(<<r1>>), Block(<<r2>>)), r3>> :
                        r1 \in Returns, r2 \in {ReturnStatement(IntegerExpression(1))},
                        r3 \in Returns}
                \cup {<<WhileStatement(Id("b"), Block(<<r1>>)), r2>> :
                        r1 \in Returns, r2 \in Returns}}

(* Family 6: the function list, with repeated names and with mains that    *)
(* take a parameter or return nothing.                                     *)
MaxFunctions == 2

FunOpts ==
  {MainOk, FunMk,
   Function("main", <<Declaration(IntType, "a")>>, <<>>, ReturnTypeVoid, <<>>),
   Function("mk", <<>>, <<>>, ReturnTypeVoid, <<>>)}

FunctionPrograms ==
  {Program(<<NodeDecl>>, <<>>, fs) : fs \in SeqsUpTo(FunOpts, MaxFunctions)}

(* Family 7: the entry point.  main with and without a parameter, declared *)
(* int, bool, Node or void with a body that fits the declared type, before *)
(* or after the function mk.                                               *)
MainBodies ==
  {<<RetInt, <<ReturnStatement(IntegerExpression(0))>>>>,
   <<RetBool, <<ReturnStatement(TrueExpression)>>>>,
   <<RetStruct("Node"), <<ReturnStatement(NewExpression("Node"))>>>>,
   <<ReturnTypeVoid, <<>>>>,
   <<ReturnTypeVoid, <<ReturnEmptyStatement>>>>}

MainOpts ==
  {Function("main", ps, <<>>, rb[1], rb[2]) :
     ps \in {<<>>, <<Declaration(IntType, "a")>>}, rb \in MainBodies}

MainPrograms ==
  {Program(<<NodeDecl>>, <<>>, fs) : fs \in {<<FunMk, m>> : m \in MainOpts}
                                           \cup {<<m, FunMk>> : m \in MainOpts}}

(* Family 8: the calls between functions.  ping calls pong and pong calls  *)
(* ping, d is declared with one parameter and with none, and the callers   *)
(* call d both ways; the functions stand in any order, repeated or absent. *)
MaxCallFunctions == 3

CallerOf(fname, ps, call) ==
  Function(fname, ps, <<>>, ReturnTypeVoid, <<InvocationStatement(call)>>)

CallFunOpts ==
  {CallerOf("ping", <<>>, InvocationExpression("pong", <<IntegerExpression(1)>>)),
   CallerOf("pong", <<Declaration(IntType, "n")>>, InvocationExpression("ping", <<>>)),
   Function("d", <<Declaration(IntType, "a")>>, <<>>, ReturnTypeVoid, <<>>),
   Function("d", <<>>, <<>>, ReturnTypeVoid, <<>>),
   CallerOf("c", <<>>, InvocationExpression("d", <<IntegerExpression(1)>>)),
   CallerOf("c0", <<>>, InvocationExpression("d", <<>>))}

CallPrograms ==
  {Program(<<>>, <<>>, fs \o <<MainOk>>) : fs \in SeqsUpTo(CallFunOpts, MaxCallFunctions)}

(* Family 9: arithmetic on a global.  main stores a op b into the global   *)
(* total and returns total.                                                *)
MaxOperand == 2

ArithMain(op, a, b) ==
  Function("main", <<>>, <<>>, RetInt,
           <<AssignmentStatement(LValueID("total"),
                                 BinaryExpression(op, IntegerExpression(a),
                                                  IntegerExpression(b))),
             ReturnStatement(Id("total"))>>)

ArithPrograms ==
  {Program(<<NodeDecl>>, <<Declaration(IntType, "total")>>, <<ArithMain(op, a, b)>>) :
     op \in {"+", "-", "*"}, a \in 1..MaxOperand, b \in 1..MaxOperand}

(* Family 10: the input read.  The hole x is read or the parameter i; it   *)
(* stands alone, as either operand, under a unary minus, as an argument    *)
(* and under a field access, in every kind of statement of t, at the top   *)
(* of the body and inside a loop, a branch and a block, or in main.        *)
FunW ==
  Function("w", <<Declaration(IntType, "a")>>, <<>>, RetStruct("Node"),
           <<ReturnStatement(NewExpression("Node"))>>)

MainRead == Function("main", <<>>, <<>>, RetInt, <<ReturnStatement(ReadExpression)>>)

ReadProgram(rt, body, m) ==
  Program(<<NodeDecl>>, EnvGlobals, <<FunF, FunMk, FunT(rt, body), FunW, m>>)

Around(x) ==
  {x,
   BinaryExpression("+", x, IntegerExpression(1)),
   BinaryExpression("+", IntegerExpression(1), x),
   UnaryExpression("-", x),
   InvocationExpression("f", <<x, Id("p")>>),
   DotExpression(InvocationExpression("w", <<x>>), "value")}

StatementsOn(e) ==
  {PrintLnStatement(e), PrintStatement(e),
   AssignmentStatement(LValueID("i"), e),
   InvocationStatement(InvocationExpression("f", <<e, Id("p")>>)),
   DeleteStatement(InvocationExpression("w", <<e>>)),
   WhileStatement(BinaryExpression("<", e, IntegerExpression(1)), Block(<<>>)),
   ConditionalStatement(BinaryExpression("<", e, IntegerExpression(1)), Block(<<>>), NoNode)}

Nested(st) ==
  {st, Block(<<st>>),
   WhileStatement(Id("b"), Block(<<st>>)),
   ConditionalStatement(Id("b"), Block(<<st>>), NoNode),
   ConditionalStatement(Id("b"), Block(<<PrintLnStatement(Id("i"))>>), Block(<<st>>))}

ReadBodies ==
  UNION {UNION {{<<n>> : n \in Nested(st)} : st \in StatementsOn(e)} :
           e \in Around(ReadExpression) \cup Around(Id("i"))}

ReadPrograms ==
  {ReadProgram(ReturnTypeVoid, b, MainOk) : b \in ReadBodies}
  \cup {ReadProgram(RetInt, <<ReturnStatement(e)>>, MainOk) :
          e \in Around(ReadExpression) \cup Around(Id("i"))}
  \cup {ReadProgram(ReturnTypeVoid, <<>>, MainRead)}

(* Family 11: the binary operators.  lhs and rhs return the operands and   *)
(* leave a trace in the global total (lhs adds one, rhs doubles), and e    *)
(* returns lhs() op rhs().  Int operands run from -1 to MaxOperand, a      *)
(* divisor from 1, a dividend from 0; bool operands are true and false.    *)
Lit(v) ==
  IF v < 0 THEN UnaryExpression("-", IntegerExpression(0 - v)) ELSE IntegerExpression(v)

BoolLit(v) == IF v = 1 THEN TrueExpression ELSE FalseExpression

Traced(fname, rt, mark, value) ==
  Function(fname, <<>>, <<>>, rt,
           <<AssignmentStatement(LValueID("total"), mark), ReturnStatement(value)>>)

OperatorProgram(op, rt_operand, rt, l, r) ==
  Program(<<>>, <<Declaration(IntType, "total")>>,
          <<Traced("lhs", rt_operand,
                   BinaryExpression("+", Id("total"), IntegerExpression(1)), l),
            Traced("rhs", rt_operand,
                   BinaryExpression("*", Id("total"), IntegerExpression(2)), r),
            Function("e", <<>>, <<>>, rt,
                     <<ReturnStatement(BinaryExpression(op, InvocationExpression("lhs", <<>>),
                                                        InvocationExpression("rhs", <<>>)))>>),
            MainOk>>)

OperatorPrograms ==
  {OperatorProgram(op, RetInt, RetInt, Lit(l), Lit(r)) :
     op \in {"+", "-", "*"}, l \in (-1)..MaxOperand, r \in (-1)..MaxOperand}
  \cup {OperatorProgram("/", RetInt, RetInt, Lit(l), Lit(r)) :
          l \in 0..MaxOperand, r \in 1..MaxOperand}
  \cup {OperatorProgram(op, RetInt, RetBool, Lit(l), Lit(r)) :
          op \in {"<", ">", "<=", ">=", "==", "!="},
          l \in (-1)..MaxOperand, r \in (-1)..MaxOperand}
  \cup {OperatorProgram(op, RetBool, RetBool, BoolLit(l), BoolLit(r)) :
          op \in {"&&", "||"}, l \in {0, 1}, r \in {0, 1}}

(* Family 12: a struct global under a shadow.  The function s may declare  *)
(* a parameter or a local named as the global gn; the function o after it  *)
(* reads and writes a field of the global.                                 *)
ShadowPrograms ==
  {Program(<<NodeDecl>>, <<Declaration(StructType("Node"), "gn")>>,
           <<Function("s", ps, ls, ReturnTypeVoid, <<>>),
             Function("o", <<>>, <<>>, ReturnTypeVoid, <<st>>),
             MainOk>>) :
     ps \in {<<>>, <<Declaration(IntType, "gn")>>, <<Declaration(StructType("Node"), "gn")>>},
     ls \in {<<>>, <<Declaration(BoolType, "gn")>>, <<Declaration(BoolType, "a")>>},
     st \in {PrintLnStatement(DotExpression(Id("gn"), "value")),
             AssignmentStatement(LValueDot(LValueID("gn"), "value"), IntegerExpression(1))}}

(* Family 13: the arguments of a call.  sub2 returns a - b, seven returns  *)
(* 7 and wide, with one parameter more than there are argument registers,  *)
(* returns its eighth; e returns a call of one of them on literals, or a   *)
(* call of sub2 with a call of sub2 as its first or second argument.       *)
Sub2 ==
  Function("sub2", <<Declaration(IntType, "a"), Declaration(IntType, "b")>>, <<>>, RetInt,
           <<ReturnStatement(BinaryExpression("-", Id("a"), Id("b")))>>)

Seven == Function("seven", <<>>, <<>>, RetInt, <<ReturnStatement(IntegerExpression(7))>>)

Wide ==
  Function("wide", [i \in 1..(ArgRegs + 1) |-> Declaration(IntType, "p" \o ToString(i))],
           <<>>, RetInt, <<ReturnStatement(Id("p" \o ToString(ArgRegs)))>>)

CallSub2(x, y) == InvocationExpression("sub2", <<x, y>>)

ArgCalls ==
  {InvocationExpression("seven", <<>>),
   InvocationExpression("wide", [i \in 1..(ArgRegs + 1) |-> IntegerExpression(i)])}
  \cup {CallSub2(IntegerExpression(x), CallSub2(IntegerExpression(y), IntegerExpression(z))) :
          x \in 0..MaxOperand, y \in 0..MaxOperand, z \in 0..MaxOperand}
  \cup {CallSub2(CallSub2(IntegerExpression(x), IntegerExpression(y)), IntegerExpression(z)) :
          x \in 0..MaxOperand, y \in 0..MaxOperand, z \in 0..MaxOperand}
  \cup {CallSub2(IntegerExpression(x), IntegerExpression(y)) :
          x \in 0..MaxOperand, y \in 0..MaxOperand}

CallArgPrograms ==
  {Program(<<>>, <<>>,
           <<Sub2, Seven, Wide,
             Function("e", <<>>, <<>>, RetInt, <<ReturnStatement(c)>>), MainOk>>) :
     c \in ArgCalls}

(* Family 14: control flow in two functions.  k1 and k2 hold ifs and       *)
(* whiles, alone, in sequence and nested in then blocks, else blocks and   *)
(* loop bodies; two of the nested ifs have an else block of no statement.  *)
If(th, el) == ConditionalStatement(TrueExpression, Block(th), el)

Wh(b) == WhileStatement(TrueExpression, Block(b))

ControlBodies ==
  {<<>>,
   <<If(<<>>, NoNode)>>,
   <<Wh(<<>>)>>,
   <<If(<<Wh(<<>>)>>, Block(<<If(<<>>, Block(<<>>))>>)), Wh(<<>>)>>,
   <<Wh(<<Wh(<<If(<<>>, Block(<<Wh(<<>>)>>))>>)>>)>>,
   <<If(<<If(<<>>, Block(<<>>))>>, NoNode), If(<<>>, Block(<<Wh(<<>>)>>))>>}

ControlPrograms ==
  {Program(<<>>, <<>>,
           <<Function("k1", <<>>, <<>>, ReturnTypeVoid, b1),
             Function("k2", <<>>, <<>>, ReturnTypeVoid, b2), MainOk>>) :
     b1 \in ControlBodies, b2 \in ControlBodies}

(* Family 15: nested expressions.  e has the local x and runs              *)
(* x = d1; if (d2 < x) { return d1; } return x - d2; where d1 and d2 nest  *)
(* operators in operands, calls in arguments, operators in arguments and   *)
(* calls in operands.                                                      *)
Num(v) == IntegerExpression(v)

Bin(op, l, r) == BinaryExpression(op, l, r)

DeepExprs ==
  {Bin("*", Bin("+", Num(1), Num(2)), Bin("-", Num(3), Num(1))),
   CallSub2(Bin("*", Num(2), Num(3)),
            Bin("+", Num(1), CallSub2(Num(4), Bin("-", Num(1), Num(2))))),
   Bin("-", Num(1), Bin("-", Num(2), Bin("-", Num(3), InvocationExpression("seven", <<>>)))),
   Bin("+", CallSub2(CallSub2(Num(1), Num(2)), CallSub2(Num(3), Num(4))),
       Bin("*", InvocationExpression("seven", <<>>), Num(2)))}

DeepBody(d1, d2) ==
  <<AssignmentStatement(LValueID("x"), d1),
    ConditionalStatement(Bin("<", d2, Id("x")), Block(<<ReturnStatement(d1)>>), NoNode),
    ReturnStatement(Bin("-", Id("x"), d2))>>

DeepPrograms ==
  {Program(<<>>, <<>>,
           <<Sub2, Seven,
             Function("e", <<>>, <<Declaration(IntType, "x")>>, RetInt, DeepBody(d1, d2)),
             MainOk>>) :
     d1 \in DeepExprs, d2 \in DeepExprs}

(* Family 16: function names.  The first function is named like a label   *)
(* of a construct or not; k holds one construct; k is also the name of a   *)
(* global.                                                                 *)
FunctionNames == {"f", "else0", "else1", "endif1"}

NamedPrograms ==
  {Program(<<>>, <<Declaration(IntType, "k")>>,
           <<Function(n, <<>>, <<>>, ReturnTypeVoid, <<>>),
             Function("k", <<>>, <<>>, ReturnTypeVoid, b), MainOk>>) :
     n \in FunctionNames, b \in {<<If(<<>>, NoNode)>>, <<Wh(<<>>)>>}}

Programs ==
  StructPrograms \cup TwoStructPrograms \cup GlobalPrograms \cup ScopePrograms
  \cup StmtPrograms \cup FunctionPrograms \cup MainPrograms \cup CallPrograms
  \cup ArithPrograms \cup ReadPrograms \cup OperatorPrograms
  \cup ShadowPrograms \cup CallArgPrograms \cup ControlPrograms \cup DeepPrograms
  \cup NamedPrograms

-----------------------------------------------------------------------------

Init ==
  /\ pc = "Start"
  /\ phase = "end"
  /\ idx = 1
  /\ syntaxErrors = 0
  /\ ioOk = TRUE
  /\ program \in Programs
  /\ errors = 0
  /\ diags = <<>>
  /\ structs = EmptyMap
  /\ globals = EmptyMap
  /\ functions = EmptyMap
  /\ function_scopes = EmptyMap
  /\ returned = 0
  /\ output = <<>>
  /\ label_counter = 0
  /\ cg_structs = EmptyMap
  /\ cg_globals = EmptyMap
  /\ locals = EmptyMap
  /\ type_environment = EmptyMap
  /\ current_locals_size = 0
  /\ read = FALSE
  /\ written = <<>>

Next ==
  \/ Parse
  \/ AnalyzeBegin
  \/ VisitType
  \/ VisitGlobal
  \/ RegisterFunction
  \/ CheckFunction
  \/ CheckMain
  \/ Abort
  \/ GenerateBegin
  \/ CalculateLayout
  \/ EmitHeader
  \/ GenerateFunction
  \/ Write

Spec == Init /\ [][Next]_vars

-----------------------------------------------------------------------------
(* Properties.  The diagnostics of a program of the statement family all   *)
(* come from the body of t: the rest of the program is correct.            *)

(* A line the generator emits in place of code it could not produce. *)
IsPlaceholder(line) ==
  \/ /\ line.op = "#"
     /\ line.text \in {"ERROR: Unknown variable", "ERROR: Field not found in struct",
                       "Field address (offset unknown)"}
  \/ /\ "note" \in DOMAIN line
     /\ line.note = "unknown struct type"

HasPlaceholder(out) == \E i \in DOMAIN out : IsPlaceholder(out[i])

(* Programs that obey every typing rule of the language: t reads and       *)
(* writes ints and Nodes through identifiers, fields, fields of fields and *)
(* call results.                                                           *)
WellTypedPrograms ==
  {StmtProgram(ReturnTypeVoid, <<PrintLnStatement(e)>>) :
     e \in {IntegerExpression(1), Id("i"), Id("total"), ReadExpression,
            DotExpression(Id("p"), "value"), DotExpression(Id("gn"), "value"),
            DotExpression(DotExpression(Id("p"), "next"), "value"),
            DotExpression(InvocationExpression("mk", <<>>), "value"),
            InvocationExpression("f", <<Id("i"), Id("p")>>),
            BinaryExpression("+", Id("i"), IntegerExpression(1))}}
  \cup {StmtProgram(ReturnTypeVoid, <<AssignmentStatement(lv, e)>>) :
          lv \in {LValueID("i"), LValueID("total"), LValueDot(LValueID("p"), "value"),
                  LValueDot(LValueID("gn"), "value")},
          e \in {IntegerExpression(1), Id("i"), DotExpression(Id("p"), "value")}}
  \cup {StmtProgram(ReturnTypeVoid, <<AssignmentStatement(lv, e)>>) :
          lv \in {LValueID("p"), LValueID("gn"), LValueDot(LValueID("p"), "next")},
          e \in {NullExpression, Id("p"), NewExpression("Node"),
                 DotExpression(Id("p"), "next"), InvocationExpression("mk", <<>>)}}

(* C1: a well-typed program passes analysis with zero diagnostics and its  *)
(* generated code holds no placeholder line ('# ERROR', '(unknown struct   *)
(* type)', '(offset unknown)'), field accesses on a field or a call result *)
(* included.                                                               *)
C1_WellTypedCompilesClean ==
  program \in WellTypedPrograms =>
    /\ pc = "Analyzed" => returned = 0
    /\ pc \in {"Generated", "Emitted"} => ~HasPlaceholder(output)

PcOrder == <<"Start", "Parsed", "Analyzing", "Analyzed", "Generating", "Generated", "Emitted">>

Rank(p) == CHOOSE j \in DOMAIN PcOrder : PcOrder[j] = p

(* A step of the driver moves to the next stage or exits; Exit and Emitted *)
(* are final.                                                              *)
C2_Forward ==
  pc' # pc => /\ pc \notin {"Exit", "Emitted"}
              /\ pc' = "Exit" \/ Rank(pc') = Rank(pc) + 1

(* The generator exists and output is written only after a parse without   *)
(* syntax errors and an analysis that returned 0.                          *)
C2_CodegenOnlyWhenClean ==
  /\ pc \in {"Generating", "Generated", "Emitted"} =>
       syntaxErrors = 0 /\ returned = 0 /\ errors = 0
  /\ syntaxErrors > 0 => pc = "Exit" /\ diags = <<>> /\ output = <<>> /\ written = <<>>
  /\ returned > 0 =>
       /\ pc \in {"Analyzed", "Exit"}
       /\ output = <<>> /\ written = <<>> /\ cg_structs = EmptyMap /\ cg_globals = EmptyMap
  /\ output # <<>> => syntaxErrors = 0 /\ returned = 0 /\ errors = 0
  /\ written # <<>> => pc = "Emitted" /\ written = output

(* C2: the pipeline only moves forward, Parsed, Analyzed, Generated,       *)
(* Emitted; code generation and the write happen only when there were no   *)
(* syntax errors and analyze returned exactly 0, and a semantic error      *)
(* exits before the generator is constructed.                              *)
C2_PipelineForwardAndGated == [][C2_Forward]_vars /\ []C2_CodegenOnlyWhenClean

(* A program with semantic errors has exited with nothing generated. *)
C2_AbortedOnSemanticError ==
  pc = "Exit" /\ syntaxErrors = 0 /\ returned > 0 /\ output = <<>> /\ written = <<>>

(* The programs of the statement family, the body of t, and the analyzer's *)
(* context inside t once the analysis is over.                             *)
IsStmtProgram == Len(program.functions) >= TIdx /\ program.functions[TIdx].name = "t"

TBody == program.functions[TIdx].body

TContext ==
  [structs |-> structs, functions |-> FunctionsOf(program, functions),
   scope |-> <<function_scopes["t"], globals>>, ret |-> program.functions[TIdx].ret_type]

OnlyStatementIs(kind) ==
  pc = "Analyzed" /\ IsStmtProgram /\ Len(TBody) = 1 /\ TBody[1].k = kind

(* The expression that reads what the lvalue names. *)
RECURSIVE AsExpression(_)
AsExpression(lval) ==
  IF lval.k = "LValueID" THEN Id(lval.id)
  ELSE DotExpression(AsExpression(lval.left), lval.id)

(* The target names a field that its resolved struct type does not have. *)
NamesMissingField(lval, base, ss) ==
  /\ is_struct(base.t)
  /\ base.t[2] \in DOMAIN ss
  /\ ~has_field(ss[base.t[2]].fields, lval.id)

(* Target type T and source type S are resolved and incompatible. *)
Incompatible(T, S) == Truthy(T.t) /\ Truthy(S.t) /\ ~types_match(T.t, S.t)

(* C3: an assignment whose target, an identifier or a field, has a         *)
(* resolved type that the resolved source type is not compatible with is   *)
(* reported as a type mismatch; an assignment to a field the struct does   *)
(* not have is rejected.                                                   *)
C3_IncompatibleAssignmentRejected ==
  OnlyStatementIs("AssignmentStatement") =>
    /\ Incompatible(expr_type(AsExpression(TBody[1].target), TContext),
                    expr_type(TBody[1].source, TContext))
         => "Type mismatch in assignment" \in Range(diags)
    /\ (/\ TBody[1].target.k = "LValueDot"
        /\ NamesMissingField(TBody[1].target,
                             expr_type(AsExpression(TBody[1].target.left), TContext), structs))
         => errors > 0

(* The layout table of a declaration puts field i at 4 * (i - 1) and has   *)
(* size 4 * n, and computing it again gives the same table.                *)
LayoutIsWordPerField(tdecl, layout) ==
  /\ DOMAIN layout.fields = {Name(tdecl.fields[i].name) : i \in DOMAIN tdecl.fields}
  /\ \A i \in DOMAIN tdecl.fields : layout.fields[Name(tdecl.fields[i].name)] = 4 * (i - 1)
  /\ layout.size = 4 * Len(tdecl.fields)
  /\ calculate_struct_layout(tdecl) = layout

(* C4: the layout of every struct has its first field at offset 0, each    *)
(* next field one word (4 bytes) further whatever its type, and size 4n;   *)
(* recomputing the layout of a declaration yields the same table.          *)
C4_LayoutWordPerField ==
  \A j \in DOMAIN program.types :
    Name(program.types[j].name) \in DOMAIN cg_structs =>
      LayoutIsWordPerField(program.types[j], cg_structs[Name(program.types[j].name)])

(* A layout was computed for a struct with a bool field followed by a      *)
(* struct reference.                                                       *)
C4_LayoutOfMixedStruct ==
  \E j \in DOMAIN program.types :
    /\ Name(program.types[j].name) \in DOMAIN cg_structs
    /\ Len(program.types[j].fields) = 2
    /\ program.types[j].fields[1].type.k = "BoolType"
    /\ program.types[j].fields[2].type.k = "StructType"
    /\ cg_structs[Name(program.types[j].name)].size = 8

(* The names of a declaration list, and the number of its positions whose  *)
(* name already stands at an earlier position.                             *)
NamesOf(decls) == [i \in DOMAIN decls |-> Name(decls[i].name)]

DupsIn(names) ==
  Cardinality({i \in DOMAIN names : \E j \in 1..(i - 1) : names[j] = names[i]})

RECURSIVE FieldDups(_)
FieldDups(types) ==
  IF types = <<>> THEN 0
  ELSE DupsIn(NamesOf(Head(types).fields)) + FieldDups(Tail(types))

RECURSIVE ParamDups(_)
ParamDups(fns) ==
  IF fns = <<>> THEN 0
  ELSE DupsIn(NamesOf(Head(fns).params)) + ParamDups(Tail(fns))

(* A local is a duplicate when a parameter or an earlier local has its     *)
(* name.                                                                   *)
RECURSIVE LocalDups(_)
LocalDups(fns) ==
  IF fns = <<>> THEN 0
  ELSE DupsIn(NamesOf(Head(fns).params \o Head(fns).locals))
       - DupsIn(NamesOf(Head(fns).params))
       + LocalDups(Tail(fns))

(* C5: each repeated struct, global, function, field, parameter or local   *)
(* name (a local repeating a parameter included) adds exactly one          *)
(* duplicate diagnostic, and a first occurrence adds none.                 *)
C5_OneDiagnosticPerDuplicate ==
  pc = "Analyzed" =>
    /\ Count(diags, {"Duplicate struct"}) = DupsIn(NamesOf(program.types))
    /\ Count(diags, {"Duplicate global"}) = DupsIn(NamesOf(program.declarations))
    /\ Count(diags, {"Duplicate function"}) = DupsIn(NamesOf(program.functions))
    /\ Count(diags, {"Duplicate field"}) = FieldDups(program.types)
    /\ Count(diags, {"Duplicate parameter"}) = ParamDups(program.functions)
    /\ Count(diags, {"Duplicate local"}) = LocalDups(program.functions)

(* A function with a repeated parameter name and a local that repeats a    *)
(* parameter name has been analyzed.                                       *)
C5_RepeatedParameterAndLocal ==
  /\ pc = "Analyzed"
  /\ \E i \in DOMAIN program.functions :
       /\ DupsIn(NamesOf(program.functions[i].params)) = 1
       /\ DupsIn(NamesOf(program.functions[i].params \o program.functions[i].locals)) = 2
  /\ Count(diags, {"Duplicate parameter"}) = 1
  /\ Count(diags, {"Duplicate local"}) = 1

(* The diagnostics about a return statement. *)
ReturnDiagnostics ==
  {"Non-void function must return value", "a Void function cannot return value",
   "Void function cannot return value", "Return type mismatch"}

(* 1 when the statement is a return that does not fit the declared type,   *)
(* e the visit of its expression; otherwise 0.                             *)
WrongReturn(stmt, declared, e) ==
  IF stmt.k = "ReturnEmptyStatement" THEN (IF declared # VOID THEN 1 ELSE 0)
  ELSE IF stmt.k = "ReturnStatement"
  THEN (IF Truthy(e.t) /\ (declared = VOID \/ ~types_match(declared, e.t)) THEN 1 ELSE 0)
  ELSE 0

WrongLastReturn(body, A) ==
  IF body = <<>> THEN 0
  ELSE WrongReturn(body[Len(body)], Type(A.ret, A.structs),
                   expr_type(GetAttr(body[Len(body)], "expression"), A))

(* C6: return validation looks at the last statement of the body only: a   *)
(* return anywhere else, earlier or inside an if, else or while block,     *)
(* adds no return diagnostic, and a last return of the wrong type adds     *)
(* exactly one.                                                            *)
C6_OnlyLastReturnChecked ==
  (pc = "Analyzed" /\ IsStmtProgram) =>
    Count(diags, ReturnDiagnostics) = WrongLastReturn(TBody, TContext)

(* The visit of an expression reported a diagnostic and resolved no type. *)
Unresolved(e) == ~Truthy(e.t) /\ e.errs # <<>>

(* The expression a statement checks: its guard, its source or its         *)
(* expression.                                                             *)
CheckedExpression(stmt) ==
  IF "guard" \in DOMAIN stmt THEN stmt.guard
  ELSE IF "source" \in DOMAIN stmt THEN stmt.source
  ELSE GetAttr(stmt, "expression")

(* The statements whose own check depends on the type of the expression:   *)
(* a return in a void function is wrong whatever it returns, and the       *)
(* blocks of a loop or a conditional are statements of their own.          *)
ChecksTypeOf(stmt, A) ==
  \/ stmt.k \in {"PrintStatement", "PrintLnStatement", "DeleteStatement",
                 "InvocationStatement"}
  \/ stmt.k = "ReturnStatement" /\ Type(A.ret, A.structs) # VOID
  \/ stmt.k = "AssignmentStatement" /\ stmt.target \in {LValueID("i"), LValueID("p")}
  \/ stmt.k = "WhileStatement"
  \/ stmt.k = "ConditionalStatement" /\ stmt.else_block = NoNode

(* The diagnostics of the operands of an operator, in visiting order. *)
OperandDiagnostics(expr, A) ==
  IF expr.k = "UnaryExpression" THEN expr_type(expr.operand, A).errs
  ELSE IF expr.k = "BinaryExpression"
  THEN expr_type(expr.left, A).errs \o expr_type(expr.right, A).errs
  ELSE IF expr.k = "DotExpression" THEN expr_type(expr.left, A).errs
  ELSE <<>>

SomeOperandUnresolved(expr, A) ==
  \/ expr.k = "UnaryExpression" /\ Unresolved(expr_type(expr.operand, A))
  \/ /\ expr.k = "BinaryExpression"
     /\ Unresolved(expr_type(expr.left, A)) \/ Unresolved(expr_type(expr.right, A))
  \/ expr.k = "DotExpression" /\ Unresolved(expr_type(expr.left, A))

(* C7: when the type of a sub-expression does not resolve because a        *)
(* diagnostic was reported for it, the enclosing operator and the          *)
(* enclosing statement (assignment, guard, print, println, delete,         *)
(* return) add no diagnostic of their own: one undefined variable gives    *)
(* exactly one diagnostic.                                                 *)
C7_NoCascadingDiagnostics ==
  (pc = "Analyzed" /\ IsStmtProgram /\ Len(TBody) = 1) =>
    /\ SomeOperandUnresolved(CheckedExpression(TBody[1]), TContext) =>
         expr_type(CheckedExpression(TBody[1]), TContext).errs
           = OperandDiagnostics(CheckedExpression(TBody[1]), TContext)
    /\ (/\ ChecksTypeOf(TBody[1], TContext)
        /\ Unresolved(expr_type(CheckedExpression(TBody[1]), TContext)))
         => diags = expr_type(CheckedExpression(TBody[1]), TContext).errs

(* The call names a registered function and passes a number of arguments   *)
(* that differs from its number of parameters.                             *)
WrongArgumentCount(call, A) ==
  /\ Name(call.name) \in DOMAIN A.functions
  /\ Len(call.arguments) # Len(A.functions[Name(call.name)].params)

(* Every argument is a declared variable or null: no diagnostic comes from *)
(* an argument itself.                                                     *)
ArgumentsAreAtoms(call) == \A j \in DOMAIN call.arguments : call.arguments[j] \in ArgAtoms

(* C8: a call with the wrong number of arguments gives exactly one 'Wrong  *)
(* number of arguments' diagnostic and no other diagnostic, whatever the   *)
(* types of the arguments and of the parameters.                           *)
C8_WrongCountReportedAlone ==
  (/\ OnlyStatementIs("InvocationStatement")
   /\ WrongArgumentCount(TBody[1].expression, TContext)
   /\ ArgumentsAreAtoms(TBody[1].expression))
    => diags = <<"Wrong number of arguments">>

(* The programs of the scope family: the global int g, the function s that *)
(* may declare g again, and the function o that does not.                   *)
IsScopeProgram ==
  /\ program.declarations = <<Declaration(IntType, "g")>>
  /\ Len(program.functions) = 3
  /\ program.functions[1].name = "s"
  /\ program.functions[2].name = "o"

SDecls == program.functions[1].params \o program.functions[1].locals

(* The first position of the name in a list of names. *)
FirstPos(names, n) ==
  CHOOSE i \in DOMAIN names : names[i] = n /\ \A j \in 1..(i - 1) : names[j] # n

ShadowsG == "g" \in Range(NamesOf(SDecls))

(* The type that g has inside s by the scoping rule: that of the first     *)
(* parameter or local named g, else that of the global.                    *)
TypeOfGInS ==
  IF ShadowsG THEN SDecls[FirstPos(NamesOf(SDecls), "g")].type ELSE IntType

(* The diagnostic that the one statement of a body using g deserves when g *)
(* has the given type.                                                     *)
UseDiagnostics(stmt, type_node) ==
  IF stmt.k = "WhileStatement" /\ type_node.k # "BoolType"
  THEN <<"Condition must be boolean">>
  ELSE IF stmt.k = "DeleteStatement" /\ type_node.k # "StructType"
  THEN <<"delete requires a struct">>
  ELSE IF stmt.k = "PrintLnStatement" /\ type_node.k # "IntType"
  THEN <<"print requires int">>
  ELSE <<>>

IsDuplicateDiagnostic(d) == d \in {"Duplicate parameter", "Duplicate local"}

IsOtherDiagnostic(d) == ~IsDuplicateDiagnostic(d)

(* The lines generated for a function: from its label to the empty line    *)
(* that ends it.                                                           *)
StartOf(out, fname) == CHOOSE i \in DOMAIN out : out[i] = LabelDef(fname)

EndOf(out, from) ==
  CHOOSE j \in from..Len(out) :
    out[j] = Directive("") /\ \A m \in from..(j - 1) : out[m] # Directive("")

CodeOf(out, fname) == SubSeq(out, StartOf(out, fname), EndOf(out, StartOf(out, fname)))

ReadsGlobalG(code) ==
  /\ \E i \in 1..(Len(code) - 1) :
       code[i] = La("t1", "global_g") /\ code[i + 1] = Lw("t0", 0, "t1")
  /\ \A i \in DOMAIN code : ~(code[i].op = "lw" /\ code[i].rd = "t0" /\ code[i].base = "fp")

ReadsSlotOfG(code, slot) ==
  /\ slot < 0
  /\ Lw("t0", slot, "fp") \in Range(code)
  /\ La("t1", "global_g") \notin Range(code)

(* C9: a parameter or local may reuse the name of a global without a       *)
(* diagnostic; inside that function the analyzer types the name by the     *)
(* local declaration and the generator reads its stack slot below fp, and  *)
(* in another function the name is the global: its declared type and its   *)
(* global_<name> data slot.                                                *)
C9_ShadowingResolvesInnermost ==
  IsScopeProgram =>
    /\ pc = "Analyzed" =>
         SelectSeq(diags, IsOtherDiagnostic)
           = UseDiagnostics(program.functions[1].body[1], TypeOfGInS)
    /\ pc \in {"Generated", "Emitted"} =>
         /\ Space("global_g", 4) \in Range(output)
         /\ ReadsGlobalG(CodeOf(output, "o"))
         /\ IF ShadowsG
            THEN ReadsSlotOfG(CodeOf(output, "s"), -(4 * FirstPos(NamesOf(SDecls), "g")))
            ELSE ReadsGlobalG(CodeOf(output, "s"))

(* Code was generated for a program whose function s has a parameter named *)
(* as the global g.                                                        *)
C9_ShadowedGlobalCompiled ==
  /\ IsScopeProgram
  /\ pc = "Generated"
  /\ errors = 0
  /\ "g" \in Range(NamesOf(program.functions[1].params))
  /\ Lw("t0", -(4 * FirstPos(NamesOf(SDecls), "g")), "fp") \in Range(CodeOf(output, "s"))
  /\ La("t1", "global_g") \in Range(CodeOf(output, "o"))

(* An equality between null and one of the variables i (int), b (bool)     *)
(* and p (Node), in either order.                                          *)
IsNullEquality(e) ==
  /\ e.k = "BinaryExpression"
  /\ e.operator \in {"==", "!="}
  /\ \/ e.left = NullExpression /\ e.right \in {Id("i"), Id("b"), Id("p")}
     \/ e.right = NullExpression /\ e.left \in {Id("i"), Id("b"), Id("p")}

Mirror(e) == BinaryExpression(e.operator, e.right, e.left)

ComparesStructWithNull(e) == Id("p") \in {e.left, e.right}

(* The two orders give the type bool and the same diagnostics: none for a  *)
(* struct, one for an int or a bool.                                       *)
SymmetricNullEquality(e, a, m) ==
  /\ a.t = BOOL /\ m.t = BOOL
  /\ Len(a.errs) = Len(m.errs)
  /\ a.errs = IF ComparesStructWithNull(e) THEN <<>>
              ELSE <<"Cannot compare null with non-struct">>

(* C10: x == null and null == x, and the same with !=, give the same       *)
(* number of diagnostics and the result type bool for x an int, a bool or  *)
(* a struct; both are accepted for a struct and both rejected for an int   *)
(* or a bool.                                                              *)
C10_NullEqualitySymmetric ==
  (OnlyStatementIs("PrintLnStatement") /\ IsNullEquality(TBody[1].expression)) =>
    /\ SymmetricNullEquality(TBody[1].expression,
                             expr_type(TBody[1].expression, TContext),
                             expr_type(Mirror(TBody[1].expression), TContext))
    /\ diags = (IF ComparesStructWithNull(TBody[1].expression) THEN <<>>
                ELSE <<"Cannot compare null with non-struct">>)
               \o <<"print requires int">>

(* The analysis of null == i has reported the comparison. *)
C10_NullComparedWithInt ==
  /\ OnlyStatementIs("PrintLnStatement")
  /\ TBody[1].expression = BinaryExpression("==", NullExpression, Id("i"))
  /\ diags = <<"Cannot compare null with non-struct", "print requires int">>

(* The fields, as <<struct position, field position>>, whose type names a   *)
(* struct that is neither the struct being declared nor one declared       *)
(* before it.                                                              *)
FieldPositions(types) == UNION {{<<j, i>> : i \in DOMAIN types[j].fields} : j \in DOMAIN types}

NamesUnregisteredStruct(types, p) ==
  /\ types[p[1]].fields[p[2]].type.k = "StructType"
  /\ Name(types[p[1]].fields[p[2]].type.name)
       \notin {Name(types[m].name) : m \in 1..p[1]}

UnregisteredFieldTypes(types) ==
  Cardinality({p \in FieldPositions(types) : NamesUnregisteredStruct(types, p)})

(* The programs whose only declarations are structs: every 'Undefined      *)
(* struct' diagnostic comes from a field.                                  *)
OnlyStructsDeclared == program.declarations = <<>> /\ program.functions = <<MainOk>>

(* C11: a field whose type names a struct declared later or never gives    *)
(* one 'Undefined struct' diagnostic; a field that names the struct being  *)
(* declared or an earlier struct gives none.                               *)
C11_FieldOfUnregisteredStruct ==
  (pc = "Analyzed" /\ OnlyStructsDeclared) =>
    Count(diags, {"Undefined struct"}) = UnregisteredFieldTypes(program.types)

(* Node has a field of the later struct P, and P a field of the earlier    *)
(* struct Node: only the first is reported.                                *)
C11_ForwardReferenceReported ==
  /\ pc = "Analyzed"
  /\ Len(program.types) = 2
  /\ program.types[1] = TypeDeclaration("Node", <<Declaration(StructType("P"), "x")>>)
  /\ program.types[2].name = "P"
  /\ Declaration(StructType("Node"), "x") \in Range(program.types[2].fields)
  /\ Count(diags, {"Undefined struct"}) = 1

(* The last statement of the body of t. *)
TLast == TBody[Len(TBody)]

(* The block ends in a return of an expression whose type is the declared  *)
(* one.                                                                    *)
EndsInCorrectReturn(block, A) ==
  /\ block # NoNode
  /\ block.statements # <<>>
  /\ block.statements[Len(block.statements)].k = "ReturnStatement"
  /\ expr_type(block.statements[Len(block.statements)].expression, A).errs = <<>>
  /\ types_match(Type(A.ret, A.structs),
                 expr_type(block.statements[Len(block.statements)].expression, A).t)

(* t is declared non-void and its body ends in an if. *)
NonVoidEndsInIf ==
  /\ pc = "Analyzed" /\ IsStmtProgram
  /\ Type(program.functions[TIdx].ret_type, structs) # VOID
  /\ TBody # <<>>
  /\ TLast.k = "ConditionalStatement"

(* C12: a non-void function whose last statement is an if gets exactly one *)
(* 'Missing return statement' diagnostic, and when the if is the whole     *)
(* body and both of its branches end in a correctly typed return that is   *)
(* the only diagnostic.                                                    *)
C12_IfLastIsMissingReturn ==
  NonVoidEndsInIf =>
    /\ Count(diags, {"Missing return statement"}) = 1
    /\ (/\ Len(TBody) = 1
        /\ Len(TLast.then_block.statements) = 1
        /\ EndsInCorrectReturn(TLast.then_block, TContext)
        /\ EndsInCorrectReturn(TLast.else_block, TContext)
        /\ Len(TLast.else_block.statements) = 1)
         => diags = <<"Missing return statement">>

(* int t ends in if (b) { return 1; } else { return 1; } and has been      *)
(* analyzed.                                                               *)
C12_BothBranchesReturnInt ==
  /\ pc = "Analyzed" /\ IsStmtProgram
  /\ program.functions[TIdx].ret_type = RetInt
  /\ TBody = <<ConditionalStatement(Id("b"),
                                    Block(<<ReturnStatement(IntegerExpression(1))>>),
                                    Block(<<ReturnStatement(IntegerExpression(1))>>))>>
  /\ diags = <<"Missing return statement">>

(* The function that the name main is registered for. *)
MainFn == program.functions[functions["main"]]

(* C13: an otherwise correct program whose main takes no parameter and is  *)
(* declared bool, a struct or void, with a body that fits that type, gets  *)
(* exactly one diagnostic: 'main() must return an int'.                    *)
C13_NonIntMainOneDiagnostic ==
  (/\ pc = "Analyzed"
   /\ program \in MainPrograms
   /\ MainFn.params = <<>>
   /\ MainFn.ret_type # RetInt)
    => diags = <<"main() must return an int">>

(* A main declared bool that returns true has been analyzed. *)
C13_BoolMainAnalyzed ==
  /\ pc = "Analyzed"
  /\ program \in MainPrograms
  /\ MainFn = Function("main", <<>>, <<>>, RetBool, <<ReturnStatement(TrueExpression)>>)
  /\ returned = 1
  /\ diags = <<"main() must return an int">>

(* The diagnostics of the entry-point validation. *)
EntryDiagnostics ==
  {"Main() function id missing", "main() function takes no arguments",
   "main() must return an int"}

HasMain == "main" \in Range(NamesOf(program.functions))

(* The first function named main: the one the name is registered for. *)
FirstMain == program.functions[FirstPos(NamesOf(program.functions), "main")]

(* The entry-point diagnostics that the program deserves. *)
EntryVerdict ==
  IF ~HasMain THEN <<"Main() function id missing">>
  ELSE (IF FirstMain.params # <<>> THEN <<"main() function takes no arguments">> ELSE <<>>)
       \o (IF FirstMain.ret_type # RetInt THEN <<"main() must return an int">> ELSE <<>>)

IsEntryDiagnostic(d) == d \in EntryDiagnostics

AllBodiesChecked ==
  \A i \in DOMAIN program.functions : Name(program.functions[i].name) \in DOMAIN function_scopes

(* C14: a program without a function main gets the missing-main            *)
(* diagnostic, a main with parameters gets the no-arguments diagnostic,    *)
(* and a main without parameters declared int gets no entry-point          *)
(* diagnostic; the entry point is validated once, when every function body *)
(* has been checked.                                                       *)
C14_EntryPointValidatedLast ==
  /\ pc = "Analyzed" => SelectSeq(diags, IsEntryDiagnostic) = EntryVerdict
  /\ pc = "Analyzing" => SelectSeq(diags, IsEntryDiagnostic) = <<>>
  /\ (pc = "Analyzed" \/ phase = "main") => AllBodiesChecked

(* main(int a) declared after mk has been reported once, after the bodies  *)
(* of mk and main were checked.                                            *)
C14_MainWithParameterReported ==
  /\ pc = "Analyzed"
  /\ program.functions
       = <<FunMk, Function("main", <<Declaration(IntType, "a")>>, <<>>, RetInt,
                           <<ReturnStatement(IntegerExpression(0))>>)>>
  /\ DOMAIN function_scopes = {"mk", "main"}
  /\ diags = <<"main() function takes no arguments">>

(* The diagnostics that the call in the body of fn deserves when it is     *)
(* checked against the first declaration of the callee's name in the whole *)
(* function list.                                                          *)
CallVerdict(fn, all) ==
  IF fn.body = <<>> \/ fn.body[1].k # "InvocationStatement" THEN <<>>
  ELSE IF Name(fn.body[1].expression.name) \notin Range(NamesOf(all))
  THEN <<"Undefined function">>
  ELSE IF Len(all[FirstPos(NamesOf(all), Name(fn.body[1].expression.name))].params)
            # Len(fn.body[1].expression.arguments)
  THEN <<"Wrong number of arguments">>
  ELSE <<>>

RECURSIVE CallVerdicts(_, _)
CallVerdicts(fns, all) ==
  IF fns = <<>> THEN <<>>
  ELSE CallVerdict(Head(fns), all) \o CallVerdicts(Tail(fns), all)

IsNotDuplicateFunction(d) == d # "Duplicate function"

(* C15: every function is registered before any body is checked: a call to *)
(* a function declared later and mutually recursive calls resolve without  *)
(* an 'Undefined function' diagnostic, and a call of a name declared twice *)
(* is checked against the first declaration.                               *)
C15_CallsResolveToFirstDeclaration ==
  /\ (pc = "Analyzing" /\ phase = "check") =>
       DOMAIN functions = Range(NamesOf(program.functions))
  /\ (pc = "Analyzed" /\ program \in CallPrograms) =>
       /\ SelectSeq(diags, IsNotDuplicateFunction)
            = CallVerdicts(program.functions, program.functions)
       /\ \A n \in DOMAIN functions : functions[n] = FirstPos(NamesOf(program.functions), n)

(* ping, which calls the later pong, and pong, which calls ping, have been *)
(* analyzed without any diagnostic.                                        *)
C15_MutualRecursionAccepted ==
  /\ pc = "Analyzed"
  /\ program \in CallPrograms
  /\ Len(program.functions) = 3
  /\ program.functions[1].name = "ping"
  /\ program.functions[2].name = "pong"
  /\ diags = <<>>

(* The number of the analyzer's position in one full pass: the structs,    *)
(* the globals, the registration of each function, the check of each       *)
(* function, then the main check.                                          *)
PassRank(prog, ph, i) ==
  (IF ph \in {"globals", "register", "check", "main"} THEN Len(prog.types) ELSE 0)
  + (IF ph \in {"register", "check", "main"} THEN Len(prog.declarations) ELSE 0)
  + (IF ph \in {"check", "main"} THEN Len(prog.functions) ELSE 0)
  + (IF ph = "main" THEN Len(prog.functions) ELSE 0)
  + i

(* The position names an item of the program. *)
PassPosition(prog, ph, i) ==
  \/ ph = "types" /\ i \in DOMAIN prog.types
  \/ ph = "globals" /\ i \in DOMAIN prog.declarations
  \/ ph \in {"register", "check"} /\ i \in DOMAIN prog.functions
  \/ ph = "main" /\ i = 1

(* A step of the analysis goes to the next position of the pass whatever   *)
(* has been reported, counts one error per diagnostic, and leaves the      *)
(* analysis only from the main check, returning the count.                 *)
C16_Step ==
  /\ errors' >= errors
  /\ errors' - errors = Len(diags') - Len(diags)
  /\ (pc = "Parsed" /\ pc' = "Analyzing") => PassRank(program', phase', idx') = 1
  /\ pc' = "Analyzing" => PassPosition(program', phase', idx')
  /\ (pc = "Analyzing" /\ pc' = "Analyzing") =>
       PassRank(program', phase', idx') = PassRank(program, phase, idx) + 1
  /\ (pc = "Analyzing" /\ pc' # "Analyzing") =>
       /\ phase = "main"
       /\ pc' = "Analyzed"
       /\ returned' = Len(diags')

C16_Counted ==
  /\ errors = Len(diags)
  /\ pc = "Analyzed" =>
       /\ returned = Len(diags)
       /\ DOMAIN structs = Range(NamesOf(program.types))
       /\ DOMAIN globals = Range(NamesOf(program.declarations))
       /\ DOMAIN function_scopes = Range(NamesOf(program.functions))

(* C16: the analysis never stops early: whatever has been reported, every  *)
(* struct, every global and every function body is visited once, in order, *)
(* and the main check runs; the error counter grows by one per diagnostic  *)
(* and analyze returns the total number of diagnostics.                    *)
C16_FullPassCountsEveryDiagnostic == [][C16_Step]_vars /\ []C16_Counted

(* An analysis that reported in the struct loop went on to the functions   *)
(* and returned all three of its diagnostics.                              *)
C16_ThreeDiagnosticsReturned ==
  /\ pc = "Analyzed"
  /\ returned = 3
  /\ Len(diags) = 3
  /\ diags[1] \in {"Duplicate struct", "Undefined struct", "Duplicate field"}
  /\ "main" \in DOMAIN function_scopes

-----------------------------------------------------------------------------
(* The machine that runs the emitted lines: registers, a memory of words   *)
(* (the values of the programs run stay far from the 32-bit limits), the   *)
(* data slots in the order of their .space lines, and a stack that grows   *)
(* down.  A call of a label that the lines do not define leaves the        *)
(* machine: exit ends the run, any other is outside it.                    *)

MaxSteps == 40

Registers ==
  {"sp", "fp", "ra", "t0", "t1", "t2", "a0", "a1", "a2", "a3", "a4", "a5", "a6", "a7"}

RECURSIVE DataAddress(_, _)
DataAddress(code, label) ==
  IF code = <<>> THEN 0
  ELSE IF Head(code).op = ".space" /\ Head(code).label = label THEN 65536
  ELSE (IF Head(code).op = ".space" THEN Head(code).imm ELSE 0)
       + DataAddress(Tail(code), label)

LabelPosition(code, label) == CHOOSE i \in DOMAIN code : code[i] = LabelDef(label)

Defines(code, label) == \E i \in DOMAIN code : code[i] = LabelDef(label)

(* The machine at the first line of main: the stack pointer at the top of  *)
(* the stack, a1 at the argument vector, whose second word is the input    *)
(* handle.                                                                 *)
Boot(code) ==
  [regs |-> [r \in Registers |-> IF r = "sp" THEN 32768 ELSE IF r = "a1" THEN 49152 ELSE 0],
   mem |-> Put(EmptyMap, 49156, 1),
   ip |-> LabelPosition(code, "main"),
   status |-> "running"]

(* The register zero reads as 0. *)
RegValue(m, r) == IF r = "zero" THEN 0 ELSE m.regs[r]

SetReg(m, rd, v) == [m EXCEPT !.regs[rd] = v, !.ip = m.ip + 1]

Alu(op, a, b) ==
  IF op = "add" THEN a + b
  ELSE IF op = "sub" THEN a - b
  ELSE IF op = "mul" THEN a * b
  ELSE IF op = "div" THEN a \div b
  ELSE IF op = "slt" THEN (IF a < b THEN 1 ELSE 0)
  ELSE IF op = "and" THEN (IF a = 1 /\ b = 1 THEN 1 ELSE 0)
  ELSE IF op = "or" THEN (IF a = 1 \/ b = 1 THEN 1 ELSE 0)
  ELSE IF op = "seqz" THEN (IF a = 0 THEN 1 ELSE 0)
  ELSE IF op = "snez" THEN (IF a # 0 THEN 1 ELSE 0)
  ELSE IF op = "neg" THEN 0 - a
  ELSE 0

(* The operations whose result the machine defines for the operands. *)
AluDefined(op, a, b) ==
  \/ op \in {"add", "sub", "mul", "slt", "seqz", "snez", "neg"}
  \/ op \in {"and", "or"} /\ a \in {0, 1} /\ b \in {0, 1}
  \/ op = "div" /\ a >= 0 /\ b > 0

Execute(m, code, ins) ==
  IF ins.op \in {"label", "directive", "#", ".space"} THEN [m EXCEPT !.ip = m.ip + 1]
  ELSE IF ins.op = "li" THEN SetReg(m, ins.rd, ins.imm)
  ELSE IF ins.op = "mv" THEN SetReg(m, ins.rd, m.regs[ins.rs])
  ELSE IF ins.op = "addi" THEN SetReg(m, ins.rd, m.regs[ins.rs] + ins.imm)
  ELSE IF ins.op = "xori" /\ ins.imm = 1 /\ m.regs[ins.rs] \in {0, 1}
  THEN SetReg(m, ins.rd, 1 - m.regs[ins.rs])
  ELSE IF ins.op = "la" THEN SetReg(m, ins.rd, DataAddress(code, ins.label))
  ELSE IF ins.op = "sw"
  THEN [m EXCEPT !.mem = Put(m.mem, m.regs[ins.base] + ins.imm, m.regs[ins.rs]),
                 !.ip = m.ip + 1]
  ELSE IF ins.op = "lw"
  THEN (IF m.regs[ins.base] + ins.imm \in DOMAIN m.mem
        THEN SetReg(m, ins.rd, m.mem[m.regs[ins.base] + ins.imm])
        ELSE [m EXCEPT !.status = "fault"])
  ELSE IF "rd" \in DOMAIN ins /\ "rt" \in DOMAIN ins
          /\ AluDefined(ins.op, m.regs[ins.rs], m.regs[ins.rt])
  THEN SetReg(m, ins.rd, Alu(ins.op, m.regs[ins.rs], m.regs[ins.rt]))
  ELSE IF ins.op \in {"seqz", "snez", "neg"}
  THEN SetReg(m, ins.rd, Alu(ins.op, m.regs[ins.rs], 0))
  ELSE IF ins.op = "beq"
  THEN [m EXCEPT !.ip = IF RegValue(m, ins.rs) = RegValue(m, ins.rt)
                        THEN LabelPosition(code, ins.label) ELSE m.ip + 1]
  ELSE IF ins.op = "j" THEN [m EXCEPT !.ip = LabelPosition(code, ins.label)]
  ELSE IF ins.op = "jr" THEN [m EXCEPT !.ip = m.regs[ins.rs]]
  ELSE IF ins.op = "jal" /\ ins.label = "exit" THEN [m EXCEPT !.status = "exit"]
  ELSE IF ins.op = "jal" /\ Defines(code, ins.label)
  THEN [m EXCEPT !.regs["ra"] = m.ip + 1, !.ip = LabelPosition(code, ins.label)]
  ELSE [m EXCEPT !.status = "outside"]

RECURSIVE Run(_, _, _)
Run(m, code, fuel) ==
  IF m.status # "running" \/ fuel = 0 \/ m.ip \notin DOMAIN code THEN m
  ELSE Run(Execute(m, code, code[m.ip]), code, fuel - 1)

(* The value of a op b. *)
ArithValue(e) ==
  IF e.operator = "+" THEN e.left.value + e.right.value
  ELSE IF e.operator = "-" THEN e.left.value - e.right.value
  ELSE e.left.value * e.right.value

(* The machine stopped at jal exit with v in a0 and in the word of the     *)
(* global total.                                                           *)
ExitsWith(m, code, v) ==
  /\ m.status = "exit"
  /\ code[m.ip] = Jal("exit")
  /\ m.regs["a0"] = v
  /\ DataAddress(code, "global_total") \in DOMAIN m.mem
  /\ m.mem[DataAddress(code, "global_total")] = v
  /\ m.regs["sp"] = 32768

(* C17: the program with struct Node, the global int total and a main that *)
(* runs total = 1 + 2; return total; (and the same with the other operands *)
(* and operators of the family) passes the analysis with zero diagnostics, *)
(* and running the emitted lines stores the value, 3, into the word at     *)
(* global_total and reaches jal exit with that value in a0.                *)
C17_SumStoredAndReturned ==
  program \in ArithPrograms =>
    /\ pc = "Analyzed" => returned = 0 /\ diags = <<>>
    /\ pc \in {"Generated", "Emitted"} =>
         ExitsWith(Run(Boot(output), output, MaxSteps), output,
                   ArithValue(program.functions[1].body[1].source))

(* The code of total = 1 + 2; return total; has been generated and its run *)
(* exits with 3.                                                           *)
C17_OnePlusTwoCompiled ==
  /\ program = Program(<<NodeDecl>>, <<Declaration(IntType, "total")>>,
                       <<ArithMain("+", 1, 2)>>)
  /\ pc = "Generated"
  /\ errors = 0
  /\ Space("global_total", 4) \in Range(output)
  /\ ExitsWith(Run(Boot(output), output, MaxSteps), output, 3)

-----------------------------------------------------------------------------
(* The frame of a generated function. *)

(* The number of functions whose code has been generated. *)
GeneratedCount ==
  IF pc = "Generating" /\ phase = "functions" THEN idx - 1
  ELSE IF pc \in {"Generated", "Emitted"} THEN Len(program.functions)
  ELSE 0

FrameDecls(f) == f.params \o f.locals

(* Declaration i of the parameters followed by the locals has the slot     *)
(* -4i.                                                                    *)
SlotsOf(f) ==
  [n \in Range(NamesOf(FrameDecls(f))) |-> -(4 * FirstPos(NamesOf(FrameDecls(f)), n))]

(* The number of return statements in a statement, at any depth. *)
RECURSIVE ReturnsOf(_)
ReturnsOf(st) ==
  IF st = NoNode THEN 0
  ELSE IF st.k \in {"ReturnStatement", "ReturnEmptyStatement"} THEN 1
  ELSE IF st.k = "BlockStatement"
  THEN (IF st.statements = <<>> THEN 0
        ELSE ReturnsOf(Head(st.statements)) + ReturnsOf(Block(Tail(st.statements))))
  ELSE IF st.k = "ConditionalStatement"
  THEN ReturnsOf(st.then_block) + ReturnsOf(st.else_block)
  ELSE IF st.k = "WhileStatement" THEN ReturnsOf(st.body)
  ELSE 0

(* The return paths of a function: its return statements and, when the     *)
(* body does not end in one, the implicit return.                          *)
ReturnPaths(f) ==
  ReturnsOf(Block(f.body))
  + (IF f.body # <<>>
        /\ f.body[Len(f.body)].k \in {"ReturnStatement", "ReturnEmptyStatement"}
     THEN 0 ELSE 1)

IsLeave(line) == line = Jr("ra") \/ line = Jal("exit")

(* The line where the epilogue of the return path that leaves at j ends. *)
EpilogueEnd(code, j) == IF code[j - 1] = Li("a0", 0) THEN j - 2 ELSE j - 1

(* The path that leaves at j releases size bytes of slots, if any, then    *)
(* restores fp and ra from the two words of the prologue and releases      *)
(* them.                                                                   *)
ReleasesFrame(code, j, size) ==
  /\ EpilogueEnd(code, j) > 4
  /\ code[EpilogueEnd(code, j)] = Addi("sp", "sp", 8)
  /\ code[EpilogueEnd(code, j) - 1] = Lw("ra", 4, "sp")
  /\ code[EpilogueEnd(code, j) - 2] = Lw("fp", 0, "sp")
  /\ IF size > 0 THEN code[EpilogueEnd(code, j) - 3] = Addi("sp", "sp", size)
     ELSE code[EpilogueEnd(code, j) - 3].op # "addi"

(* The lines of the prologue, before the slots are reserved. *)
PrologueLength(f, rd) == 5 + (IF Name(f.name) = "main" /\ rd THEN 4 ELSE 0)

FrameOf(f, code, rd) ==
  /\ SubSeq(code, 1, 5)
       = <<LabelDef(Name(f.name)), Addi("sp", "sp", -8), Sw("ra", 4, "sp"),
           Sw("fp", 0, "sp"), Addi("fp", "sp", 0)>>
  /\ FrameDecls(f) # <<>> =>
       code[PrologueLength(f, rd) + 1] = Addi("sp", "sp", -(4 * Len(FrameDecls(f))))
  /\ \A i \in 1..Min(Len(f.params), ArgRegs) :
       code[PrologueLength(f, rd) + 1 + i] = Sw(ArgReg(i - 1), -(4 * i), "fp")
  /\ \A j \in DOMAIN code :
       IsLeave(code[j]) => ReleasesFrame(code, j, 4 * Len(FrameDecls(f)))
  /\ Cardinality({j \in DOMAIN code : IsLeave(code[j])}) = ReturnPaths(f)

(* C18: the parameters, then the locals, of a function take the slots -4,  *)
(* -8, ..., -4(k+m) below fp in declaration order, 4(k+m) bytes are        *)
(* reserved, and every return path of the function, value return, empty    *)
(* return and implicit return, releases that size and then restores fp and *)
(* ra from the two-word prologue area.                                     *)
C18_FrameSlotsAndReturnPaths ==
  /\ \A i \in 1..GeneratedCount :
       FrameOf(program.functions[i], CodeOf(output, Name(program.functions[i].name)), read)
  /\ GeneratedCount > 0 =>
       /\ locals = SlotsOf(program.functions[GeneratedCount])
       /\ current_locals_size = 4 * Len(FrameDecls(program.functions[GeneratedCount]))

(* The code of a function with three parameters, an empty return and an    *)
(* implicit return has been generated: 12 bytes reserved, 12 released on   *)
(* both paths.                                                             *)
C18_TwoReturnPathsGenerated ==
  /\ pc = "Generated"
  /\ IsStmtProgram
  /\ TBody = <<ReturnEmptyStatement, PrintLnStatement(Id("i"))>>
  /\ Addi("sp", "sp", -12) \in Range(CodeOf(output, "t"))
  /\ Count(CodeOf(output, "t"), {Addi("sp", "sp", 12)}) = 2
  /\ Count(CodeOf(output, "t"), {Jr("ra")}) = 2

(* The instruction that ends a return path of the function, and the one    *)
(* that must not.                                                          *)
LeaveOf(fname) == IF fname = "main" THEN Jal("exit") ELSE Jr("ra")

OtherLeaveOf(fname) == IF fname = "main" THEN Jr("ra") ELSE Jal("exit")

(* Every return path in the code of f ends with the leave of f; a value    *)
(* return of main moves the value into a0 right before the epilogue.       *)
EndsReturnPaths(f, code) ==
  /\ Count(code, {LeaveOf(Name(f.name))}) = ReturnPaths(f)
  /\ OtherLeaveOf(Name(f.name)) \notin Range(code)
  /\ \A j \in DOMAIN code :
       (code[j] = Jal("exit") /\ code[j - 1] # Li("a0", 0)) =>
         code[j - 4 - (IF FrameDecls(f) # <<>> THEN 1 ELSE 0)] = Mv("a0", "t0")

(* The code of f generated on its own. *)
CodeAlone(f) == cg_visit_function(f, 0, EmptyMap, EmptyMap, EmptyMap, FALSE).out

(* The value that the main of a program that reaches the generator         *)
(* returns: a literal, or the global it has just assigned.                 *)
MainValue ==
  IF FirstMain.body[1].k = "ReturnStatement" THEN FirstMain.body[1].expression.value
  ELSE ArithValue(FirstMain.body[1].source)

(* main calls nothing outside the emitted lines before it returns. *)
MainIsClosed ==
  \/ FirstMain.body[1].k = "AssignmentStatement"
  \/ FirstMain.body[1].expression.k = "IntegerExpression"

ExitsWithValue(m, code, v) ==
  m.status = "exit" /\ code[m.ip] = Jal("exit") /\ m.regs["a0"] = v

(* C19: every return path emitted in main, value return, empty return and  *)
(* implicit return, ends with jal exit and never with jr ra; every return  *)
(* path of another function ends with jr ra and never with jal exit; at    *)
(* the exit call after a value return of main a0 holds the returned value. *)
C19_MainExitsOthersReturn ==
  /\ pc = "Start" =>
       \A i \in DOMAIN program.functions :
         EndsReturnPaths(program.functions[i], CodeAlone(program.functions[i]))
  /\ \A i \in 1..GeneratedCount :
       EndsReturnPaths(program.functions[i],
                       CodeOf(output, Name(program.functions[i].name)))
  /\ (pc \in {"Generated", "Emitted"} /\ MainIsClosed) =>
       ExitsWithValue(Run(Boot(output), output, MaxSteps), output, MainValue)

(* The code of mk and of a main that returns 0 has been generated: mk      *)
(* leaves with jr ra, main with jal exit and 0 in a0.                      *)
C19_MainAfterHelperGenerated ==
  /\ pc = "Generated"
  /\ program.functions = <<FunMk, MainOk>>
  /\ Count(CodeOf(output, "mk"), {Jr("ra")}) = 1
  /\ Count(CodeOf(output, "main"), {Jal("exit")}) = 1
  /\ ExitsWithValue(Run(Boot(output), output, MaxSteps), output, 0)

-----------------------------------------------------------------------------
(* The input read. *)

(* The node is a read, or a read stands in one of its operands, its base   *)
(* or its arguments.                                                       *)
RECURSIVE ReadWithin(_)
ReadWithin(e) ==
  \/ e.k = "ReadExpression"
  \/ "left" \in DOMAIN e /\ ReadWithin(e.left)
  \/ "right" \in DOMAIN e /\ ReadWithin(e.right)
  \/ "operand" \in DOMAIN e /\ ReadWithin(e.operand)
  \/ "arguments" \in DOMAIN e /\ \E i \in DOMAIN e.arguments : ReadWithin(e.arguments[i])

(* A read stands in an expression of the statement or in a statement       *)
(* nested in it.                                                           *)
RECURSIVE ReadInside(_)
ReadInside(st) ==
  \/ \E fld \in {"guard", "source", "target", "expression"} \cap DOMAIN st :
       ReadWithin(st[fld])
  \/ \E fld \in {"then_block", "else_block", "body"} \cap DOMAIN st : ReadInside(st[fld])
  \/ "statements" \in DOMAIN st /\ \E i \in DOMAIN st.statements : ReadInside(st.statements[i])

ContainsRead(prog) ==
  \E i \in DOMAIN prog.functions :
    \E j \in DOMAIN prog.functions[i].body : ReadInside(prog.functions[i].body[j])

(* The lines of main's prologue that store the input handle. *)
HandleStore ==
  <<Comment("Save input filename", ""), Lw("t0", 4, "a1"), La("t1", "input_file_ptr"),
    Sw("t0", 0, "t1")>>

StoresHandle(code) == Len(code) >= 9 /\ SubSeq(code, 6, 9) = HandleStore

RefersToHandle(line) == "label" \in DOMAIN line /\ line.op = "la" /\ line.label = "input_file_ptr"

(* C20: the import of read_int, the data slot input_file_ptr and the store *)
(* of the input handle in main's prologue are emitted exactly when some    *)
(* function body holds a read expression, at any depth of any statement    *)
(* and expression; every emitted reference to input_file_ptr then has its  *)
(* slot declared.                                                          *)
C20_ReadSupportIffReadUsed ==
  /\ (pc \in {"Generated", "Emitted"} \/ (pc = "Generating" /\ phase = "functions")) =>
       /\ read = ContainsRead(program)
       /\ Directive(".import read_int.s") \in Range(output) <=> ContainsRead(program)
       /\ Space("input_file_ptr", 4) \in Range(output) <=> ContainsRead(program)
       /\ (\E i \in DOMAIN output : RefersToHandle(output[i])) =>
            Count(output, {Space("input_file_ptr", 4)}) = 1
  /\ pc \in {"Generated", "Emitted"} =>
       /\ StoresHandle(CodeOf(output, "main")) <=> ContainsRead(program)
       /\ ~ContainsRead(program) => \A i \in DOMAIN output : ~RefersToHandle(output[i])
       /\ ContainsRead(program) => La("t0", "input_file_ptr") \in Range(output)

(* The code of a program whose only read is the argument of a call under a *)
(* field access, printed inside a loop, has been generated with the        *)
(* import, the slot and the store.                                         *)
C20_NestedReadCompiled ==
  /\ pc = "Generated"
  /\ IsStmtProgram
  /\ TBody = <<WhileStatement(Id("b"),
                 Block(<<PrintLnStatement(
                           DotExpression(InvocationExpression("w", <<ReadExpression>>),
                                         "value"))>>))>>
  /\ Directive(".import read_int.s") \in Range(output)
  /\ Space("input_file_ptr", 4) \in Range(output)
  /\ StoresHandle(CodeOf(output, "main"))
  /\ La("t0", "input_file_ptr") \in Range(CodeOf(output, "t"))

-----------------------------------------------------------------------------
(* The binary operators. *)

(* The words of the data section, all zero before the program runs. *)
ZeroedData(code) ==
  [a \in {DataAddress(code, code[i].label) : i \in {j \in DOMAIN code : code[j].op = ".space"}}
     |-> 0]

(* The machine at the first line of a function called from outside the     *)
(* emitted lines: ra is 0, so that its return leaves the lines.            *)
StartAt(code, label) ==
  [Boot(code) EXCEPT !.ip = LabelPosition(code, label),
                     !.mem = Update(ZeroedData(code), Boot(code).mem)]

Returned(m) == m.status = "running" /\ m.ip = 0 /\ m.regs["sp"] = 32768

(* The value of a literal operand. *)
OperandValue(e) ==
  IF e.k = "UnaryExpression" THEN 0 - e.operand.value
  ELSE IF e.k = "IntegerExpression" THEN e.value
  ELSE IF e.k = "TrueExpression" THEN 1
  ELSE 0

Truth(b) == IF b THEN 1 ELSE 0

(* The reference result of l op r. *)
Reference(op, l, r) ==
  IF op = "+" THEN l + r
  ELSE IF op = "-" THEN l - r
  ELSE IF op = "*" THEN l * r
  ELSE IF op = "/" THEN l \div r
  ELSE IF op = "<" THEN Truth(l < r)
  ELSE IF op = ">" THEN Truth(l > r)
  ELSE IF op = "<=" THEN Truth(l <= r)
  ELSE IF op = ">=" THEN Truth(l >= r)
  ELSE IF op = "==" THEN Truth(l = r)
  ELSE IF op = "!=" THEN Truth(l # r)
  ELSE IF op = "&&" THEN Truth(l = 1 /\ r = 1)
  ELSE Truth(l = 1 \/ r = 1)

(* The operands that lhs and rhs return in a program of the operator       *)
(* family, and the operator of e.                                          *)
LeftOperand == OperandValue(program.functions[1].body[2].expression)

RightOperand == OperandValue(program.functions[2].body[2].expression)

OperatorOfE == program.functions[3].body[1].expression.operator

(* The run of e returned with v in t0 and in a0, after lhs and then rhs    *)
(* had run once each: total went from 0 to 1 to 2.                         *)
EvaluatedTo(m, code, v) ==
  /\ Returned(m)
  /\ m.regs["t0"] = v
  /\ m.regs["a0"] = v
  /\ m.mem[DataAddress(code, "global_total")] = 2

(* C21: for every binary operator and all operand values of the family,    *)
(* running the lines emitted for lhs() op rhs() leaves in t0 the reference *)
(* result: l+r, l-r, l*r, l/r, 1 iff l<r, l>r, l<=r, l>=r, l==r, l!=r, and *)
(* the logical and/or for && and ||; both operands are evaluated, the left *)
(* one before the right one, whatever the left one is.                     *)
C21_BinaryOperatorsCompute ==
  program \in OperatorPrograms =>
    /\ pc = "Analyzed" => returned = 0
    /\ pc \in {"Generated", "Emitted"} =>
         EvaluatedTo(Run(StartAt(output, "e"), output, 4 * MaxSteps), output,
                     Reference(OperatorOfE, LeftOperand, RightOperand))

(* The code of false && true has been generated and its run evaluates both *)
(* operands and leaves 0 in t0.                                            *)
C21_FalseAndTrueCompiled ==
  /\ pc = "Generated"
  /\ program = OperatorProgram("&&", RetBool, RetBool, FalseExpression, TrueExpression)
  /\ Op3("and", "t0", "t0", "t1") \in Range(CodeOf(output, "e"))
  /\ EvaluatedTo(Run(StartAt(output, "e"), output, 4 * MaxSteps), output, 0)

-----------------------------------------------------------------------------
(* The store of an assignment. *)

WritesRegister(line, r) == "rd" \in DOMAIN line /\ line.rd = r

(* The line before the store at j where the assignment saved the source    *)
(* value: the last mv t1, t0 (the address code of a target emits none).    *)
SavedAt(code, j) ==
  CHOOSE i \in 1..(j - 1) :
    code[i] = Mv("t1", "t0") /\ \A n \in (i + 1)..(j - 1) : code[n] # Mv("t1", "t0")

(* No line between the save and the store at j writes t1. *)
KeepsSourceValue(code, j) ==
  \A n \in (SavedAt(code, j) + 1)..(j - 1) : ~WritesRegister(code[n], "t1")

(* C22: for every assignment statement, no line emitted between            *)
(* mv t1, t0 (the save of the source value) and the final store            *)
(* sw t1, 0(t0) overwrites t1, whether the target is a local, a global, a  *)
(* field of a local or parameter struct or a field of a global struct: the *)
(* word stored is the source value.                                        *)
C22_StoreWritesSourceValue ==
  \A j \in DOMAIN output : output[j] = Sw("t1", 0, "t0") => KeepsSourceValue(output, j)

-----------------------------------------------------------------------------
(* The generator's type environment between functions. *)

(* The type environment maps every global to its declared type. *)
GlobalsTyped(prog, tenv) ==
  \A i \in DOMAIN prog.declarations :
    /\ Name(prog.declarations[i].name) \in DOMAIN tenv
    /\ tenv[Name(prog.declarations[i].name)] = prog.declarations[i].type

(* The programs of the shadow family. *)
IsShadowProgram ==
  /\ program.declarations = <<Declaration(StructType("Node"), "gn")>>
  /\ Len(program.functions) = 3
  /\ program.functions[1].name = "s"
  /\ program.functions[2].name = "o"

(* The code reaches the field value of Node at its declared offset, 4,     *)
(* without a fallback line.                                                *)
ResolvesValueOfNode(code) ==
  /\ ~HasPlaceholder(code)
  /\ \/ Lw("t0", 4, "t2") \in Range(code)
     \/ Addi("t0", "t0", 4) \in Range(code)

(* C23: once the generator's function loop has begun, and after the code   *)
(* of any function is finished, the type environment maps every global to  *)
(* its declared type, also a global whose name a parameter or local of     *)
(* that function shadowed; a field access on the global struct gn in the   *)
(* function generated after the shadowing one uses the declared offset of  *)
(* the field, not the offset-zero fallback.                                *)
C23_GlobalTypesRestored ==
  /\ (pc \in {"Generated", "Emitted"} \/ (pc = "Generating" /\ phase = "functions")) =>
       GlobalsTyped(program, type_environment)
  /\ (IsShadowProgram /\ pc \in {"Generated", "Emitted"}) =>
       ResolvesValueOfNode(CodeOf(output, "o"))

-----------------------------------------------------------------------------
(* Field accesses. *)

(* The declaration that the name v stands for inside f: its first          *)
(* parameter or local of that name, else the global.                       *)
DeclarationOf(f, v) ==
  IF v \in Range(NamesOf(FrameDecls(f)))
  THEN FrameDecls(f)[FirstPos(NamesOf(FrameDecls(f)), v)]
  ELSE IF v \in Range(NamesOf(program.declarations))
  THEN program.declarations[FirstPos(NamesOf(program.declarations), v)]
  ELSE NoNode

(* The declaration of struct S and the offset of its field fd in the       *)
(* layout: a word per field before it.                                     *)
StructNamed(S) == program.types[FirstPos(NamesOf(program.types), S)]

OffsetOf(S, fd) == 4 * (FirstPos(NamesOf(StructNamed(S).fields), fd) - 1)

(* v is declared inside f with a struct type that has the field fd. *)
IsFieldOfVariable(f, v, fd) ==
  /\ DeclarationOf(f, v) # NoNode
  /\ DeclarationOf(f, v).type.k = "StructType"
  /\ DeclarationOf(f, v).type.name \in Range(NamesOf(program.types))
  /\ fd \in Range(NamesOf(StructNamed(DeclarationOf(f, v).type.name).fields))

(* The line that leaves the pointer held by v in t0. *)
PointerLoad(f, v) ==
  IF v \in Range(NamesOf(FrameDecls(f))) THEN Lw("t0", SlotsOf(f)[v], "fp")
  ELSE Lw("t0", 0, "t1")

(* The code reads the field at offset off of the pointer loaded from v. *)
ReadsFieldAt(f, code, v, off) ==
  \E i \in 2..(Len(code) - 1) :
    /\ code[i - 1] = PointerLoad(f, v)
    /\ code[i] = Mv("t2", "t0")
    /\ code[i + 1] = Lw("t0", off, "t2")

(* The code takes the address at offset off of the pointer loaded from v. *)
AddressesFieldAt(f, code, v, off) ==
  \E i \in 1..(Len(code) - 2) :
    /\ code[i] = PointerLoad(f, v)
    /\ code[i + 1] = Addi("t0", "t0", off)
    /\ code[i + 2] = Sw("t1", 0, "t0")

(* The code reads offset zero and marks the access as unresolved. *)
ReadsFallback(code) == LwNote("t0", 0, "t2", "unknown struct type") \in Range(code)

(* The one statement of f is a field read or write on a variable, or a     *)
(* field read on a field, and its code is as the claim says.               *)
FieldAccessByLayout(f, st, code) ==
  /\ (st.k = "PrintLnStatement" /\ st.expression.k = "DotExpression"
      /\ st.expression.left.k = "IdentifierExpression"
      /\ IsFieldOfVariable(f, st.expression.left.id, st.expression.id)) =>
       ReadsFieldAt(f, code, st.expression.left.id,
                    OffsetOf(DeclarationOf(f, st.expression.left.id).type.name,
                             st.expression.id))
  /\ (st.k = "AssignmentStatement" /\ st.target.k = "LValueDot"
      /\ st.target.left.k = "LValueID"
      /\ IsFieldOfVariable(f, st.target.left.id, st.target.id)) =>
       AddressesFieldAt(f, code, st.target.left.id,
                        OffsetOf(DeclarationOf(f, st.target.left.id).type.name,
                                 st.target.id))
  /\ (st.k = "PrintLnStatement" /\ st.expression.k = "DotExpression"
      /\ st.expression.left.k = "DotExpression") => ReadsFallback(code)

(* C24: a field read v.f or a field write v.f = e, where v is a parameter, *)
(* a local or a global declared with type Struct(S) and f is a field of S, *)
(* is emitted with exactly offset(S, f) added to the pointer loaded from   *)
(* v; a read whose base is itself a field access uses offset zero and is   *)
(* marked as unresolved.                                                   *)
C24_FieldAccessUsesLayoutOffset ==
  \A i \in 1..GeneratedCount :
    Len(program.functions[i].body) = 1 =>
      FieldAccessByLayout(program.functions[i], program.functions[i].body[1],
                          CodeOf(output, Name(program.functions[i].name)))

-----------------------------------------------------------------------------
(* The arguments of a call. *)

(* The programs of the call-argument family and the call that e returns. *)
IsCallArgProgram ==
  /\ Len(program.functions) = 5
  /\ program.functions[1].name = "sub2"
  /\ program.functions[4].name = "e"

CallOfE == program.functions[4].body[1].expression

(* The lines of a call as the claim orders them: the buffer of 4n bytes,   *)
(* argument i evaluated and stored at 4i(sp) from left to right, the loads *)
(* of the first eight into a0.., the release, the jump and the copy of a0. *)
RECURSIVE StagedCall(_)
StagedCall(e) ==
  IF e.k = "IntegerExpression" THEN <<Li("t0", e.value)>>
  ELSE (IF e.arguments # <<>> THEN <<Addi("sp", "sp", 0 - 4 * Len(e.arguments))>> ELSE <<>>)
       \o Concat([i \in DOMAIN e.arguments |->
                    StagedCall(e.arguments[i]) \o <<Sw("t0", 4 * (i - 1), "sp")>>])
       \o [i \in 1..Min(Len(e.arguments), 8) |-> Lw(ArgReg(i - 1), 4 * (i - 1), "sp")]
       \o (IF e.arguments # <<>> THEN <<Addi("sp", "sp", 4 * Len(e.arguments))>> ELSE <<>>)
       \o <<Jal(e.name), Mv("t0", "a0")>>

(* The value of a call of the family. *)
RECURSIVE CallValue(_)
CallValue(e) ==
  IF e.k = "IntegerExpression" THEN e.value
  ELSE IF e.name = "sub2" THEN CallValue(e.arguments[1]) - CallValue(e.arguments[2])
  ELSE IF e.name = "wide" THEN CallValue(e.arguments[8])
  ELSE 7

ReturnedWith(m, v) == Returned(m) /\ m.regs["a0"] = v

(* The body of e, after the five lines of its prologue, begins with the    *)
(* lines of the call.                                                      *)
BeginsWithCall(code, lines) == SubSeq(code, 6, 5 + Len(lines)) = lines

-----------------------------------------------------------------------------
(* The labels of the control-flow constructs. *)

(* The number of ifs and whiles in a statement, at any depth. *)
RECURSIVE ConstructsOf(_)
ConstructsOf(st) ==
  IF st = NoNode THEN 0
  ELSE IF st.k = "BlockStatement"
  THEN (IF st.statements = <<>> THEN 0
        ELSE ConstructsOf(Head(st.statements)) + ConstructsOf(Block(Tail(st.statements))))
  ELSE IF st.k = "ConditionalStatement"
  THEN 1 + ConstructsOf(st.then_block) + ConstructsOf(st.else_block)
  ELSE IF st.k = "WhileStatement" THEN 1 + ConstructsOf(st.body)
  ELSE 0

(* The label at i opens a function: its prologue follows. *)
IsFunctionLabelAt(out, i) ==
  /\ out[i].op = "label"
  /\ i + 2 <= Len(out)
  /\ out[i + 1] = Addi("sp", "sp", -8)
  /\ out[i + 2] = Sw("ra", 4, "sp")

(* The lines where a construct defines a label. *)
ControlDefs(out) == {i \in DOMAIN out : out[i].op = "label" /\ ~IsFunctionLabelAt(out, i)}

DefsOf(out, defs, label) == {i \in defs : out[i].label = label}

RefsOf(out, label) == {i \in DOMAIN out : out[i].op \in {"beq", "j"} /\ out[i].label = label}

(* The labels that counter value n can name. *)
LabelsOf(n) == {Label(prefix, n) : prefix \in {"else", "endif", "while_start", "while_end"}}

(* The one branch to the label stands on a line from lo to hi. *)
BranchedOnceWithin(out, refs, lo, hi) ==
  /\ Cardinality(refs) = 1
  /\ \A b \in refs : lo <= b /\ b <= hi /\ out[b].op = "beq"

(* The if whose else<n> is defined at e: the one branch to else<n> stands  *)
(* before, the one jump to endif<n+1> right before e, and endif<n+1> is    *)
(* defined once, after e.                                                  *)
IfOwnsLabels(out, defs, n, e) ==
  /\ e > 2
  /\ out[e - 1] = J(Label("endif", n + 1))
  /\ RefsOf(out, Label("endif", n + 1)) = {e - 1}
  /\ BranchedOnceWithin(out, RefsOf(out, Label("else", n)), 1, e - 2)
  /\ Cardinality(DefsOf(out, defs, Label("endif", n + 1))) = 1
  /\ \A x \in DefsOf(out, defs, Label("endif", n + 1)) : e < x

(* The while whose while_end<n+1> is defined at x: while_start<n> is       *)
(* defined once, before, the one branch to while_end<n+1> stands between,  *)
(* and the one jump to while_start<n> right before x.                      *)
WhileOwnsLabels(out, defs, n, x) ==
  /\ x > 2
  /\ out[x - 1] = J(Label("while_start", n))
  /\ RefsOf(out, Label("while_start", n)) = {x - 1}
  /\ Cardinality(DefsOf(out, defs, Label("while_start", n))) = 1
  /\ \A s \in DefsOf(out, defs, Label("while_start", n)) :
       BranchedOnceWithin(out, RefsOf(out, Label("while_end", n + 1)), s + 1, x - 2)

(* The label defined at i belongs to the construct that took the counter   *)
(* values n and n + 1, and that construct owns both labels.                *)
OwnedBy(out, defs, n, i) ==
  \/ out[i].label = Label("else", n) /\ IfOwnsLabels(out, defs, n, i)
  \/ /\ out[i].label = Label("endif", n + 1)
     /\ Cardinality(DefsOf(out, defs, Label("else", n))) = 1
  \/ /\ out[i].label = Label("while_start", n)
     /\ Cardinality(DefsOf(out, defs, Label("while_end", n + 1))) = 1
  \/ out[i].label = Label("while_end", n + 1) /\ WhileOwnsLabels(out, defs, n, i)

(* Every value below the counter named one label, defined on one line;     *)
(* every label of a construct belongs to a construct that owns its pair;   *)
(* every branch and jump names a label that a construct defines.           *)
LabelsUniqueAmong(out, defs, counter) ==
  /\ Cardinality(defs) = counter
  /\ \A n \in 0..(counter - 1) :
       Cardinality({i \in defs : out[i].label \in LabelsOf(n)}) = 1
  /\ \A i \in defs : \E n \in 0..(counter - 1) : OwnedBy(out, defs, n, i)
  /\ \A i \in DOMAIN out :
       out[i].op \in {"beq", "j"} => \E d \in defs : out[d].label = out[i].label

LabelsUnique(out, counter) == LabelsUniqueAmong(out, ControlDefs(out), counter)

(* A step never lowers the label counter, and generating a function raises *)
(* it by two for each if and each while of its body.                       *)
C26_Step ==
  /\ label_counter' >= label_counter
  /\ (pc = "Generating" /\ phase = "functions") =>
       label_counter' = label_counter + 2 * ConstructsOf(Block(program.functions[idx].body))
  /\ ~(pc = "Generating" /\ phase = "functions") => label_counter' = label_counter

-----------------------------------------------------------------------------
(* The stack pointer. *)

(* The bytes reserved at a statement boundary of f: the two words of the   *)
(* prologue and the slots.                                                 *)
FrameSize(f) == 8 + 4 * Len(FrameDecls(f))

MovesSp(line) == line.op = "addi" /\ line.rd = "sp" /\ line.rs = "sp"

(* The sum of the moves of sp on the lines of the set at. *)
RECURSIVE SpSum(_, _)
SpSum(code, at) ==
  IF at = {} THEN 0
  ELSE LET i == CHOOSE n \in at : TRUE
       IN  code[i].imm + SpSum(code, at \ {i})

(* The last line before i that leaves the function, 0 if there is none. *)
LastLeave(leaves, i) ==
  IF \E j \in leaves : j < i
  THEN CHOOSE j \in leaves : j < i /\ \A n \in leaves : n < i => n <= j
  ELSE 0

(* The bytes reserved when line i starts: nothing at the function label,   *)
(* the frame after a line that leaves (the code after it is reached from a *)
(* statement boundary), and from there the moves of sp.                    *)
ReservedAt(code, moves, leaves, i, frame) ==
  (IF LastLeave(leaves, i) = 0 THEN 0 ELSE frame)
    - SpSum(code, {n \in moves : LastLeave(leaves, i) < n /\ n < i})

ReservationsOf(code, moves, leaves, frame) ==
  [i \in DOMAIN code |-> ReservedAt(code, moves, leaves, i, frame)]

Reservations(code, frame) ==
  ReservationsOf(code, {n \in DOMAIN code : MovesSp(code[n])},
                 {n \in DOMAIN code : IsLeave(code[n])}, frame)

(* The lines that stand at a statement boundary: the branches and jumps of *)
(* the constructs, the labels they define, the store of an assignment, the *)
(* call of a print and the move of a return value.                         *)
IsBoundary(code, i) ==
  \/ code[i].op \in {"beq", "j"}
  \/ code[i].op = "label" /\ i > 1
  \/ code[i] \in {Sw("t1", 0, "t0"), Jal("print_int"), Jal("print_char"), Mv("a0", "t0")}

(* The reservation at line r is released at a later line by the same size, *)
(* and nothing between releases more than was reserved after it.           *)
ReleasedLater(code, res, r) ==
  \E i \in (r + 1)..Len(code) :
    /\ code[i] = Addi("sp", "sp", 0 - code[r].imm)
    /\ res[i] = res[r] - code[r].imm
    /\ \A n \in (r + 1)..i : res[n] >= res[i]

(* The release at line i gives back the latest reservation: the line that  *)
(* made it stands before, or it is the frame on a further return path.     *)
ReleasesLatest(code, res, i, frame) ==
  \/ \E r \in 1..(i - 1) :
       /\ code[r] = Addi("sp", "sp", 0 - code[i].imm)
       /\ res[r] = res[i] - code[i].imm
       /\ \A n \in (r + 1)..i : res[n] >= res[i]
  \/ /\ \E j \in 1..(i - 1) : IsLeave(code[j])
     /\ \/ res[i] = frame /\ code[i].imm = frame - 8
        \/ res[i] = 8 /\ code[i].imm = 8

(* Every reservation is matched by a release and every release by a        *)
(* reservation; a statement boundary sees exactly the frame; fp and ra are *)
(* reloaded from 0(sp) and 4(sp) when only the two words of the prologue   *)
(* are left; the function is left with nothing reserved; nothing else      *)
(* writes sp.                                                              *)
StackDiscipline(code, res, frame) ==
  \A i \in DOMAIN code :
    /\ res[i] >= 0
    /\ (MovesSp(code[i]) /\ code[i].imm < 0) => ReleasedLater(code, res, i)
    /\ (MovesSp(code[i]) /\ code[i].imm > 0) => ReleasesLatest(code, res, i, frame)
    /\ IsBoundary(code, i) => res[i] = frame
    /\ code[i] \in {Lw("fp", 0, "sp"), Lw("ra", 4, "sp")} => res[i] = 8
    /\ IsLeave(code[i]) => res[i] = 0
    /\ WritesRegister(code[i], "sp") => MovesSp(code[i])
    /\ i = Len(code) => res[i] = frame

StackNeutral(f, code) == StackDiscipline(code, Reservations(code, FrameSize(f)), FrameSize(f))

(* A run of up to three times four times MaxSteps steps. *)
RunLong(m, code) ==
  Run(Run(Run(m, code, 4 * MaxSteps), code, 4 * MaxSteps), code, 4 * MaxSteps)

(* The value of an expression of literals, operators and calls of sub2 and *)
(* seven.                                                                  *)
RECURSIVE ExprValue(_)
ExprValue(e) ==
  IF e.k = "IntegerExpression" THEN e.value
  ELSE IF e.k = "BinaryExpression"
  THEN Reference(e.operator, ExprValue(e.left), ExprValue(e.right))
  ELSE IF e.name = "sub2" THEN ExprValue(e.arguments[1]) - ExprValue(e.arguments[2])
  ELSE 7

(* The programs of the nested-expression family and what e returns. *)
IsDeepProgram ==
  /\ Len(program.functions) = 4
  /\ program.functions[1].name = "sub2"
  /\ program.functions[3].name = "e"

DeepValue(v1, v2) == IF v2 < v1 THEN v1 ELSE v1 - v2

(* C27: in the code of every function, every addi sp, sp, -k is matched by *)
(* a later addi sp, sp, k that releases the latest reservation, at every   *)
(* nesting depth of operators and calls; at every statement boundary       *)
(* exactly the frame is reserved (sp = fp - reserved size), the epilogue   *)
(* of every return path reloads fp and ra with sp = fp and leaves with     *)
(* nothing reserved; a function of nested expressions returns the value of *)
(* the source to its caller with sp restored.                              *)
C27_ExpressionsStackNeutral ==
  /\ \A i \in 1..GeneratedCount :
       StackNeutral(program.functions[i], CodeOf(output, Name(program.functions[i].name)))
  /\ (IsDeepProgram /\ pc \in {"Generated", "Emitted"}) =>
       ReturnedWith(RunLong(StartAt(output, "e"), output),
                    DeepValue(ExprValue(program.functions[3].body[1].source),
                              ExprValue(program.functions[3].body[2].guard.left)))

(* The code of a function whose expressions nest calls in operands and     *)
(* operators in arguments has been generated and run: the reservations of  *)
(* the nested operands and argument buffers reach 28 bytes above the frame *)
(* at once inside it.                                                      *)
C27_NestedExpressionCompiled ==
  /\ pc = "Generated"
  /\ IsDeepProgram
  /\ program.functions[3].body[1].source
       = CallSub2(Bin("*", Num(2), Num(3)),
                  Bin("+", Num(1), CallSub2(Num(4), Bin("-", Num(1), Num(2)))))
  /\ program.functions[3].body[2].guard.left = program.functions[3].body[1].source
  /\ \E n \in DOMAIN CodeOf(output, "e") :
       Reservations(CodeOf(output, "e"), FrameSize(program.functions[3]))[n]
         = FrameSize(program.functions[3]) + 28
  /\ ReturnedWith(RunLong(StartAt(output, "e"), output), 0)

-----------------------------------------------------------------------------
(* Else-pruning.                                                           *)

(* An else block of no statement. *)
IsEmptyElse(el) ==
  el # NoNode /\ (IF "statements" \in DOMAIN el THEN el.statements = <<>> ELSE TRUE)

(* The statement with every else block of no statement replaced by no      *)
(* else, at every depth, and nothing else changed.                         *)
RECURSIVE PrunedStmt(_)
PrunedStmt(st) ==
  IF st.k = "ConditionalStatement"
  THEN [st EXCEPT !.then_block = PrunedStmt(st.then_block),
                  !.else_block = IF st.else_block = NoNode \/ IsEmptyElse(st.else_block)
                                 THEN NoNode ELSE PrunedStmt(st.else_block)]
  ELSE IF st.k = "WhileStatement" THEN [st EXCEPT !.body = PrunedStmt(st.body)]
  ELSE IF st.k = "BlockStatement"
  THEN [st EXCEPT !.statements = [i \in DOMAIN st.statements |-> PrunedStmt(st.statements[i])]]
  ELSE st

PrunedBody(body) == [i \in DOMAIN body |-> PrunedStmt(body[i])]

(* A conditional with an else block of no statement stands in st. *)
RECURSIVE HasEmptyElse(_)
HasEmptyElse(st) ==
  IF st.k = "ConditionalStatement"
  THEN \/ IsEmptyElse(st.else_block)
       \/ HasEmptyElse(st.then_block)
       \/ st.else_block # NoNode /\ HasEmptyElse(st.else_block)
  ELSE IF st.k = "WhileStatement" THEN HasEmptyElse(st.body)
  ELSE IF st.k = "BlockStatement"
  THEN \E i \in DOMAIN st.statements : HasEmptyElse(st.statements[i])
  ELSE FALSE

(* The functions the checking loop has visited. *)
CheckedCount ==
  IF pc = "Analyzing" /\ phase = "check" THEN idx - 1
  ELSE IF pc = "Analyzing" /\ phase = "main" THEN Len(program.functions)
  ELSE IF pc \in {"Analyzed", "Generating", "Generated", "Emitted"}
          \/ (pc = "Exit" /\ syntaxErrors = 0)
  THEN Len(program.functions)
  ELSE 0

NoEmptyElseAmongChecked ==
  \A i \in 1..CheckedCount :
    \A n \in DOMAIN program.functions[i].body : ~HasEmptyElse(program.functions[i].body[n])

(* es stands in ds as one run of diagnostics. *)
ReportedIn(es, ds) ==
  \E k \in 0..(Len(ds) - Len(es)) : SubSeq(ds, k + 1, k + Len(es)) = es

(* The context in which the body of f is visited after the step. *)
BodyContext(f) ==
  [structs |-> structs, functions |-> FunctionsOf(program, functions),
   scope |-> <<function_scopes'[Name(f.name)], globals>>, ret |-> f.ret_type]

(* The diagnostics of the steps of the checking loop on f. *)
ReportedByStep == SubSeq(diags', Len(diags) + 1, Len(diags'))

C28_Step ==
  (pc = "Analyzing" /\ phase = "check") =>
    LET f == program.functions[idx]
        g == program'.functions[idx]
    IN  /\ g = [f EXCEPT !.body = PrunedBody(f.body)]
        /\ \A i \in DOMAIN program.functions :
             i # idx => program'.functions[i] = program.functions[i]
        /\ ReportedByStep
             = visit_function(g, structs, FunctionsOf(program, functions), globals).errs
        /\ \A n \in DOMAIN f.body :
             (f.body[n].k = "ConditionalStatement" /\ f.body[n].else_block # NoNode
              /\ ~IsEmptyElse(f.body[n].else_block)) =>
               /\ g.body[n].else_block.statements # <<>>
               /\ ReportedIn(visit_statement(f.body[n].else_block, BodyContext(f)).errs,
                             ReportedByStep)

(* C28: visiting a function replaces every else block of no statement in   *)
(* it by no else and changes nothing else of the program (the guard, the   *)
(* then block and every else block with statements stay); the diagnostics  *)
(* of the visit are those of the function without the empty else blocks,   *)
(* so pruning reports none; the diagnostics of the statements of an else   *)
(* block with statements are reported; no function the analyzer has        *)
(* visited holds a conditional with an else block of no statement.         *)
C28_EmptyElsePruned == [][C28_Step]_vars /\ []NoEmptyElseAmongChecked

(* k1 and k2 were given the same body with an else block of no statement   *)
(* nested in it; k1 has been visited and has lost it without a diagnostic, *)
(* k2 is still to be visited.                                              *)
C28_NestedEmptyElsePruned ==
  /\ pc = "Analyzing" /\ phase = "check" /\ idx = 2
  /\ Name(program.functions[1].name) = "k1"
  /\ \E n \in DOMAIN program.functions[2].body : HasEmptyElse(program.functions[2].body[n])
  /\ program.functions[1].body # program.functions[2].body
  /\ program.functions[1].body = PrunedBody(program.functions[2].body)
  /\ diags = <<>>

-----------------------------------------------------------------------------
(* The end of a function's block.                                          *)

LastIsReturn(f) ==
  f.body # <<>> /\ f.body[Len(f.body)].k \in {"ReturnStatement", "ReturnEmptyStatement"}

(* The lines that announce an implicit return. *)
ImplicitReturns(code) ==
  {j \in DOMAIN code :
     code[j].op = "#" /\ code[j].text \in {"Implicit return", "Implicit return from main"}}

(* The line before the epilogue of the path that leaves at j. *)
BeforeEpilogue(f, code, j) ==
  EpilogueEnd(code, j) - 3 - (IF FrameDecls(f) # <<>> THEN 1 ELSE 0)

(* The block of f ends with a return path: the epilogue, the leave of f    *)
(* and the empty line.  After a body that ends in a return it is the path  *)
(* of that statement and no implicit return is emitted; after any other    *)
(* body it is the one implicit return.                                     *)
EndsWithReturnPath(f, code) ==
  /\ Len(code) > 6
  /\ code[Len(code)] = Directive("")
  /\ code[Len(code) - 1] = LeaveOf(Name(f.name))
  /\ ReleasesFrame(code, Len(code) - 1, 4 * Len(FrameDecls(f)))
  /\ IF LastIsReturn(f)
     THEN /\ ImplicitReturns(code) = {}
          /\ f.body[Len(f.body)].k = "ReturnStatement" =>
               code[BeforeEpilogue(f, code, Len(code) - 1)] = Mv("a0", "t0")
     ELSE ImplicitReturns(code) = {BeforeEpilogue(f, code, Len(code) - 1)}

(* The label of the next function follows the empty line that ends the     *)
(* block of function i, and the line before the empty line leaves.         *)
NextFunctionNotReached(out, i) ==
  LET e == EndOf(out, StartOf(out, Name(program.functions[i].name)))
  IN  /\ IsLeave(out[e - 1])
      /\ out[e + 1] = LabelDef(Name(program.functions[i + 1].name))

(* C29: the block of every generated function ends with a complete return *)
(* path, the epilogue followed by jr ra (jal exit in main): the path of    *)
(* the return statement that ends the body, or else the implicit return    *)
(* appended after an empty body or any other last statement; the line      *)
(* before the label of the next function always leaves.                    *)
C29_BlocksEndWithReturnPath ==
  /\ \A i \in 1..GeneratedCount :
       EndsWithReturnPath(program.functions[i],
                          CodeOf(output, Name(program.functions[i].name)))
  /\ \A i \in 1..(GeneratedCount - 1) : NextFunctionNotReached(output, i)

(* The code of a function with an empty body, of a function whose body     *)
(* ends in a loop and of a main that ends in a return has been generated:  *)
(* two implicit returns, none in main.                                     *)
C29_ImplicitAndExplicitReturnsGenerated ==
  /\ pc = "Generated"
  /\ Len(program.functions) = 3
  /\ program.functions[1].body = <<>>
  /\ program.functions[2].body = <<Wh(<<>>)>>
  /\ LastIsReturn(program.functions[3])
  /\ CodeOf(output, "k1")
       = <<LabelDef("k1"), Addi("sp", "sp", -8), Sw("ra", 4, "sp"), Sw("fp", 0, "sp"),
           Addi("fp", "sp", 0), Comment("Implicit return", ""), Lw("fp", 0, "sp"),
           Lw("ra", 4, "sp"), Addi("sp", "sp", 8), Jr("ra"), Directive("")>>
  /\ Cardinality(ImplicitReturns(output)) = 2
  /\ ImplicitReturns(CodeOf(output, "main")) = {}

-----------------------------------------------------------------------------
(* The labels of the emitted assembly.                                     *)

(* A line that defines a label: a label of the text section or a slot of   *)
(* the data section.                                                       *)
DefinesLabel(line) == line.op \in {"label", ".space"}

LabelDefinitions(out) == {i \in DOMAIN out : DefinesLabel(out[i])}

(* C30: no label is defined twice in the emitted lines: the labels of the  *)
(* functions, of the constructs, of the global slots and input_file_ptr    *)
(* are pairwise distinct.                                                  *)
C30_LabelsDefinedOnce ==
  Cardinality({output[i].label : i \in LabelDefinitions(output)})
    = Cardinality(LabelDefinitions(output))

====
